---- MODULE Spec2Model ----
(***************************************************************************)
(* gehen: deployment of ECS services.  The run controller (main.go), the   *)
(* rollback controller (performRollback), the stage functions of package   *)
(* deploy (Deploy, Rollback, CheckDeployed, CheckDrained and the scheduled *)
(* task stages) and the backend calls of package awsecs.                   *)
(*                                                                         *)
(* Time is counted in units of checkIntervalDuration.  A goroutine step    *)
(* that needs no external call and a channel rendezvous whose two sides    *)
(* are ready take no time; an HTTP probe or a backend query takes any      *)
(* amount of time.  A task definition ARN is modelled by the revision      *)
(* number inside the family of its service (0 is the empty string), a task *)
(* definition by the image tag of its container.                           *)
(***************************************************************************)
EXTENDS Integers, Sequences, FiniteSets, TLC

VARIABLES
    services,     \* name -> config.Service record (the records main holds)
    tasks,        \* name -> config.ScheduledTask record
    ecs,          \* backend: service or task family name -> [TaskDefinition, family]
    ecs0,         \* the backend as it was when the run began
    eb,           \* backend: scheduled task name -> revision its rule targets
    updateStrategy, \* parsedConfig.UpdateStrategy
    pc,           \* the call site main / performRollback is at
    exec,         \* "idle": about to call the stage, "wait": the stage collects, "ret": it returned
    stageInput,   \* the slice handed to the running stage
    task,         \* name -> state of the goroutine the running stage started for it
    pending,      \* name -> the error of the Result the goroutine is sending
    results,      \* the results collected so far / returned
    iter,         \* the collect loop's i
    completed,    \* completedServices / succeededServices of the polling stages
    timer,        \* time since the timer of the current select was created
    elapsed,      \* time since the running stage began
    sleep,        \* name -> remaining time.Sleep of the polling goroutine
    leaked,       \* polling goroutines of returned stages that are still alive:
                  \* <<site, name, "poll">> in its loop, <<site, name, "send">> blocked
                  \* on the send to the channel of its stage
    locals,       \* the failure flags and kept results of main and performRollback
    rbServices,   \* the services performRollback was called with
    trace,        \* the stage calls made so far, in order
    swaps,        \* name -> number of times Rollback swapped the service's pointers
    exitCode,     \* "running", or the process exit status
    match,        \* the inputs and the result of one application of the match predicate
    drainResp,    \* name -> the deployment the backend reported when CheckDrain said drained
    parsed        \* the inputs and the result of one call of config.Read

vars == <<services, tasks, ecs, ecs0, eb, updateStrategy, pc, exec, stageInput, task,
          pending, results, iter, completed, timer, elapsed, sleep, leaked, locals,
          rbServices, trace, swaps, exitCode, match, drainResp, parsed>>

----------------------------------------------------------------------------
(* Inputs *)

\* The services and scheduled tasks of gehen.yml; names are map keys, hence distinct.
ServiceNames == <<"web", "api">>

ScheduledTaskNames == <<"cron">>

\* The scheduled tasks of a gehen.yml that configures two of them.
TwoScheduledTaskNames == <<"cron", "report">>

\* The -gitsha flag: the version to deploy.
gitsha == "abc123def"

\* Image tags found on the backend before the run.
OldSha == "0ld456abc"

MidSha == "m1d789abc"

UpdateStrategyCurrent == "current"

UpdateStrategyLatest == "latest"

UpdateStrategyNone == "none"

\* Deployment check timeout and check interval, in check intervals.
timeoutDuration == 2

checkIntervalDuration == 1

ErrTimedOut == "ErrTimedOut"

ErrNoDeployCheckURL == "ErrNoDeployCheckURL"

ErrHealthcheckFailed == "ErrHealthcheckFailed"

\* error(nil)
Nil == "nil"

\* The task definition families a service can be found with: the image tag of each
\* revision, oldest first.  The service runs revision 1.
InitialFamilies == { <<OldSha>>, <<OldSha, MidSha>>, <<gitsha>> }

\* The check URLs a service can be configured with.
URLs == { "", "http://svc/ping" }

ToSet(seq) == { seq[k] : k \in 1..Len(seq) }

----------------------------------------------------------------------------
(* package check / deploy: the probe *)

HasPrefix(s, prefix) ==
    /\ Len(prefix) <= Len(s)
    /\ SubSeq(s, 1, Len(prefix)) = prefix

\* Index of the last "-" of s, 0 if there is none.
RECURSIVE LastIndexDash(_, _)
LastIndexDash(s, k) ==
    IF k = 0 THEN 0
    ELSE IF SubSeq(s, k, k) = "-" THEN k
    ELSE LastIndexDash(s, k - 1)

\* The HTTP responses a check URL can give.
Responses ==
    { [err |-> TRUE, status |-> 0, server |-> "", body |-> ""],
      [err |-> FALSE, status |-> 500, server |-> "", body |-> ""],
      [err |-> FALSE, status |-> 200, server |-> "", body |-> gitsha],
      [err |-> FALSE, status |-> 200, server |-> "", body |-> ""],
      [err |-> FALSE, status |-> 200, server |-> "svc-api-" \o gitsha, body |-> "OK"],
      [err |-> FALSE, status |-> 200, server |-> "svc-api-" \o OldSha, body |-> "OK"],
      [err |-> FALSE, status |-> 200, server |-> "svc-api-" \o MidSha, body |-> "OK"],
      [err |-> FALSE, status |-> 200, server |-> "svc-abc123d", body |-> "OK"],
      [err |-> FALSE, status |-> 200, server |-> "nginx", body |-> OldSha] }

\* fetchRevisionSha: the token after the last "-" of the Server header, else the body.
fetchRevisionSha(resp) ==
    IF resp.err THEN [sha |-> "", err |-> "http"]
    ELSE IF resp.status # 200 THEN [sha |-> "", err |-> "status"]
    ELSE LET d == LastIndexDash(resp.server, Len(resp.server))
         IN  IF resp.server # "" /\ d > 0
             THEN [sha |-> SubSeq(resp.server, d + 1, Len(resp.server)), err |-> Nil]
             ELSE [sha |-> resp.body, err |-> Nil]

ShaMatchesAnyLength(target, fetchedSha) == HasPrefix(target, fetchedSha)

\* The test of the deploy check: len(fetchedSha) > 7 && strings.HasPrefix(Gitsha, fetchedSha)
ShaMatches(target, fetchedSha) ==
    Len(fetchedSha) > 7 /\ HasPrefix(target, fetchedSha)

----------------------------------------------------------------------------
(* package awsecs: the backend calls *)

\* The point at which a backend call of Deploy / UpdateScheduledTask can fail.
BackendFailures ==
    { "none", "DescribeServices", "DescribeTaskDefinition", "RegisterTaskDefinition",
      "UpdateService" }

\* The revision updateTaskDef starts from: the latest revision of the family with the
\* strategy latest, the given revision otherwise.
BaseRevision(family, taskDefARN, strategy) ==
    IF strategy = UpdateStrategyLatest THEN Len(family) ELSE taskDefARN

\* An updateTaskDef that would refuse a task definition that already has the version.
updateTaskDefFailingOnSameVersion(family, taskDefARN, sha, strategy, fail) ==
    LET base == BaseRevision(family, taskDefARN, strategy)
        failed == [err |-> fail, family |-> family, newTaskDefARN |-> 0,
                   previousGitsha |-> ""]
    IN  IF fail = "DescribeTaskDefinition" THEN failed
        ELSE IF sha = family[base]
        THEN [failed EXCEPT !.err = "nothing to update"]
        ELSE IF fail = "RegisterTaskDefinition" THEN failed
        ELSE [err |-> Nil, family |-> Append(family, sha),
              newTaskDefARN |-> Len(family) + 1, previousGitsha |-> family[base]]

updateTaskDefAlwaysRegistering(family, taskDefARN, sha, strategy, fail) ==
    LET base == BaseRevision(family, taskDefARN, strategy)
    IN  IF fail \in { "DescribeTaskDefinition", "RegisterTaskDefinition" }
        THEN [err |-> fail, family |-> family, newTaskDefARN |-> 0, previousGitsha |-> ""]
        ELSE [err |-> Nil, family |-> Append(family, sha),
              newTaskDefARN |-> Len(family) + 1, previousGitsha |-> family[base]]

\* updateTaskDef: registers a revision of the family with the image tag sha, unless the
\* base revision already has that tag.
updateTaskDef(family, taskDefARN, sha, strategy, fail) ==
    LET base == BaseRevision(family, taskDefARN, strategy)
        previousGitsha == family[base]
        failed == [err |-> fail, family |-> family, newTaskDefARN |-> 0,
                   previousGitsha |-> ""]
    IN  IF fail = "DescribeTaskDefinition" THEN failed
        ELSE IF sha = previousGitsha
        THEN [err |-> Nil, family |-> family, newTaskDefARN |-> base,
              previousGitsha |-> previousGitsha]
        ELSE IF fail = "RegisterTaskDefinition" THEN failed
        ELSE [err |-> Nil, family |-> Append(family, sha),
              newTaskDefARN |-> Len(family) + 1, previousGitsha |-> previousGitsha]

\* awsecs.UpdateService on the backend entry be of the service.
UpdateService(service, be, fail) ==
    IF fail = "UpdateService"
    THEN [err |-> fail, be |-> be]
    ELSE [err |-> Nil, be |-> [be EXCEPT !.TaskDefinition = service.TaskDefinitionARN]]

\* awsecs.Deploy: the service record and the backend entry it leaves, and its error.
awsDeploy(service, be, fail) ==
    IF fail = "DescribeServices"
    THEN [err |-> fail, service |-> service, be |-> be]
    ELSE
    LET taskDefARN == be.TaskDefinition
        res == updateTaskDef(be.family, taskDefARN, service.Gitsha,
                             service.UpdateStrategy, fail)
    IN  IF res.err # Nil
        THEN [err |-> res.err, service |-> service, be |-> be]
        ELSE
        LET written == [service EXCEPT
                            !.PreviousGitsha = res.previousGitsha,
                            !.PreviousTaskDefinitionARN = taskDefARN,
                            !.TaskDefinitionARN = res.newTaskDefARN]
            upd == UpdateService(written, [be EXCEPT !.family = res.family], fail)
        IN  [err |-> upd.err, service |-> written, be |-> upd.be]

\* What DescribeServices / ListTasks / DescribeTasks can answer to CheckDrain: the
\* PRIMARY deployment runs the revision the service was last updated to; unhealthy says
\* that a task of that revision fails its health check.
DrainResponses(be) ==
    { [err |-> e, primary |-> be.TaskDefinition, running |-> r, desired |-> 1,
       unhealthy |-> u] :
        e \in { Nil, "DescribeServices" }, r \in { 0, 1 }, u \in BOOLEAN }

CheckDrainIgnoringCounts(service, resp) ==
    IF resp.err # Nil THEN [drained |-> FALSE, err |-> resp.err]
    ELSE [drained |-> TRUE, err |-> Nil]

\* awsecs.CheckDrain
CheckDrain(service, resp) ==
    LET expectedTaskDefARN ==
            IF service.TaskDefinitionARN = 0 THEN resp.primary
            ELSE service.TaskDefinitionARN
    IN  IF resp.err # Nil THEN [drained |-> FALSE, err |-> resp.err]
        ELSE IF resp.primary = expectedTaskDefARN /\ resp.running = resp.desired
        THEN [drained |-> TRUE, err |-> Nil]
        ELSE IF resp.unhealthy /\ resp.primary = service.TaskDefinitionARN
        THEN [drained |-> FALSE, err |-> ErrHealthcheckFailed]
        ELSE [drained |-> FALSE, err |-> Nil]

\* The point at which UpdateScheduledTask can fail.
ScheduledTaskFailures ==
    { "none", "ListTargetsByRule", "DescribeTaskDefinition", "RegisterTaskDefinition",
      "PutTargets" }

UpdateScheduledTaskSwapping(t, be, target, isRollback, fail) ==
    IF fail = "ListTargetsByRule" \/ fail = "PutTargets"
    THEN [err |-> fail, task |-> t, be |-> be, target |-> target]
    ELSE [err |-> Nil,
          task |-> [t EXCEPT !.Gitsha = t.PreviousGitsha,
                             !.PreviousGitsha = t.Gitsha,
                             !.TaskDefinitionARN = t.PreviousTaskDefinitionARN,
                             !.PreviousTaskDefinitionARN = t.TaskDefinitionARN],
          be |-> be,
          target |-> t.PreviousTaskDefinitionARN]

\* awsecs.UpdateScheduledTask: the task record, its family and its rule target after
\* the call, and the error.
UpdateScheduledTask(t, be, target, isRollback, fail) ==
    IF fail = "ListTargetsByRule"
    THEN [err |-> fail, task |-> t, be |-> be, target |-> target]
    ELSE IF isRollback
    THEN IF fail = "PutTargets"
         THEN [err |-> fail, task |-> t, be |-> be, target |-> target]
         ELSE [err |-> Nil, task |-> t, be |-> be,
               target |-> t.PreviousTaskDefinitionARN]
    ELSE
    LET res == updateTaskDef(be.family, target, t.Gitsha, t.UpdateStrategy, fail)
    IN  IF res.err # Nil
        THEN [err |-> res.err, task |-> t, be |-> be, target |-> target]
        ELSE
        LET written == [t EXCEPT
                            !.PreviousGitsha = res.previousGitsha,
                            !.PreviousTaskDefinitionARN = target,
                            !.TaskDefinitionARN = res.newTaskDefARN]
            be2 == [be EXCEPT !.family = res.family]
        IN  IF fail = "PutTargets"
            THEN [err |-> fail, task |-> written, be |-> be2, target |-> target]
            ELSE [err |-> Nil, task |-> written, be |-> be2,
                  target |-> res.newTaskDefARN]

----------------------------------------------------------------------------
(* package config: Read *)

UpperLetters == "ABCDEFGHIJKLMNOPQRSTUVWXYZ"

LowerLetters == "abcdefghijklmnopqrstuvwxyz"

\* strings.ToLower, on ASCII
RECURSIVE ToLower(_)
ToLower(str) ==
    IF str = "" THEN ""
    ELSE LET c == SubSeq(str, 1, 1)
             ks == { k \in 1..Len(UpperLetters) : SubSeq(UpperLetters, k, k) = c }
             lc == IF ks = {} THEN c
                   ELSE LET k == CHOOSE k \in ks : TRUE IN SubSeq(LowerLetters, k, k)
         IN  lc \o ToLower(SubSeq(str, 2, Len(str)))

\* The url a service name is configured with in the files below.
ConfiguredURL(name) == IF name = ServiceNames[1] THEN "http://svc/ping" ELSE ""

\* The files config.Read is called on: missing or present, with YAML that decodes or
\* does not, and the decoded gehenConfig.
ConfigFiles ==
    [ exists : BOOLEAN,
      decodes : BOOLEAN,
      services : SUBSET ToSet(ServiceNames),
      scheduledTasks : SUBSET ToSet(ScheduledTaskNames),
      roleARN : { "", "arn:aws:iam::123456:role/Deployer" },
      timeoutMinutes : { 0, 5 },
      updateStrategy : { "", "current", "latest", "none", "Latest", "NONE", "newest" } ]

\* ParsedConfig{}; a nil slice is the empty sequence, a nil *Role the empty set.
ZeroParsedConfig ==
    [ Services |-> <<>>, ScheduledTasks |-> <<>>, Role |-> {}, TimeoutMinutes |-> 0,
      UpdateStrategy |-> "" ]

\* The orders in which a range over a map with the keys names can visit them.
MapOrders(names) ==
    { order \in [1..Cardinality(names) -> names] :
        \A j, k \in 1..Cardinality(names) : order[j] = order[k] => j = k }

ReadDefaultingToLatest(f, sha, serviceOrder, taskOrder) ==
    IF ~f.exists \/ ~f.decodes THEN [cfg |-> ZeroParsedConfig, err |-> "read"]
    ELSE LET strategy == IF f.updateStrategy = "" THEN UpdateStrategyLatest
                         ELSE ToLower(f.updateStrategy)
         IN  [ cfg |-> [ Services |-> [k \in DOMAIN serviceOrder |->
                            [ Name |-> serviceOrder[k], Gitsha |-> sha,
                              URL |-> ConfiguredURL(serviceOrder[k]),
                              UpdateStrategy |-> strategy, PreviousGitsha |-> "",
                              PreviousTaskDefinitionARN |-> 0, TaskDefinitionARN |-> 0 ]],
                         ScheduledTasks |-> [k \in DOMAIN taskOrder |->
                            [ Name |-> taskOrder[k], Gitsha |-> sha,
                              UpdateStrategy |-> strategy, PreviousGitsha |-> "",
                              PreviousTaskDefinitionARN |-> 0, TaskDefinitionARN |-> 0 ]],
                         Role |-> {}, TimeoutMinutes |-> f.timeoutMinutes,
                         UpdateStrategy |-> strategy ],
               err |-> Nil ]

\* config.Read(configPath, gitsha) on the file f, the maps being visited in the given
\* orders.
Read(f, sha, serviceOrder, taskOrder) ==
    IF ~f.exists THEN [cfg |-> ZeroParsedConfig, err |-> "no such file"]
    ELSE IF ~f.decodes THEN [cfg |-> ZeroParsedConfig, err |-> "couldn't read yaml file"]
    ELSE
    LET lowered == ToLower(f.updateStrategy)
        strategy == IF lowered = "" THEN UpdateStrategyCurrent ELSE lowered
    IN  IF lowered \notin { UpdateStrategyCurrent, UpdateStrategyLatest,
                            UpdateStrategyNone, "" }
        THEN [cfg |-> ZeroParsedConfig, err |-> "invalid updateStrategy"]
        ELSE
        [ cfg |->
            [ Services |-> [k \in DOMAIN serviceOrder |->
                    [ Name |-> serviceOrder[k], Gitsha |-> sha,
                      URL |-> ConfiguredURL(serviceOrder[k]),
                      UpdateStrategy |-> strategy, PreviousGitsha |-> "",
                      PreviousTaskDefinitionARN |-> 0, TaskDefinitionARN |-> 0 ]],
              ScheduledTasks |-> [k \in DOMAIN taskOrder |->
                    [ Name |-> taskOrder[k], Gitsha |-> sha,
                      UpdateStrategy |-> strategy, PreviousGitsha |-> "",
                      PreviousTaskDefinitionARN |-> 0, TaskDefinitionARN |-> 0 ]],
              Role |-> IF f.roleARN # "" THEN { [ARN |-> f.roleARN] } ELSE {},
              TimeoutMinutes |-> f.timeoutMinutes,
              UpdateStrategy |-> strategy ],
          err |-> Nil ]

\* config.Read was not called.
NoParsed ==
    [ file |-> [ exists |-> FALSE, decodes |-> FALSE, services |-> {},
                 scheduledTasks |-> {}, roleARN |-> "", timeoutMinutes |-> 0,
                 updateStrategy |-> "" ],
      gitsha |-> "", done |-> FALSE, cfg |-> ZeroParsedConfig, err |-> Nil ]

----------------------------------------------------------------------------
(* State after configuration was read (config.Read) and the clients were created *)

AllNames == ToSet(ServiceNames) \cup ToSet(TwoScheduledTaskNames)

PollingSites == { "CheckDeployed", "CheckDrained", "rb.CheckDeployed", "rb.CheckDrained" }

CheckDeployedSites == { "CheckDeployed", "rb.CheckDeployed" }

CheckDrainedSites == { "CheckDrained", "rb.CheckDrained" }

NoLocals ==
    [ updateScheduledTasksFailed |-> FALSE,
      deployResults |-> <<>>, deployFailed |-> FALSE, succeededServices |-> <<>>,
      checkDeployedResults |-> <<>>, checkDeployedFailed |-> FALSE,
      checkDrainedResults |-> <<>>, checkDrainedFailed |-> FALSE,
      rollbackResults |-> <<>>, rollbackFailed |-> FALSE,
      rbCheckDeployedResults |-> <<>>, rbCheckDeployedFailed |-> FALSE,
      rbCheckDrainedResults |-> <<>>, rbCheckDrainedFailed |-> FALSE,
      rollbackScheduledTasksFailed |-> FALSE,
      exitMsg |-> "" ]

\* No answer of the backend recorded.
NoDrainResp == [primary |-> 0, running |-> 0, desired |-> 0]

NoMatch == [expectedSha |-> "", resp |-> "", fetchedSha |-> "", ok |-> "unset", err |-> Nil]

NewService(name, url, strategy) ==
    [ Name |-> name, Gitsha |-> gitsha, URL |-> url, UpdateStrategy |-> strategy,
      PreviousGitsha |-> "", PreviousTaskDefinitionARN |-> 0, TaskDefinitionARN |-> 0 ]

NewScheduledTask(name, strategy) ==
    [ Name |-> name, Gitsha |-> gitsha, UpdateStrategy |-> strategy,
      PreviousGitsha |-> "", PreviousTaskDefinitionARN |-> 0, TaskDefinitionARN |-> 0 ]

IdleExecutor ==
    /\ exec = "idle"
    /\ stageInput = <<>>
    /\ task = [n \in AllNames |-> "none"]
    /\ pending = [n \in AllNames |-> Nil]
    /\ results = <<>>
    /\ iter = 0
    /\ completed = {}
    /\ timer = 0
    /\ elapsed = 0
    /\ sleep = [n \in AllNames |-> 0]
    /\ drainResp = [n \in ToSet(ServiceNames) |-> NoDrainResp]

\* main after config.Read and the clients are built: every service and scheduled task
\* carries the version to deploy; at most one service is found on the backend in another
\* state than a single revision of an older version.
Init ==
    /\ \E urls \in [ToSet(ServiceNames) -> URLs],
          fams \in [ToSet(ServiceNames) -> InitialFamilies],
          strategy \in { UpdateStrategyCurrent, UpdateStrategyLatest, UpdateStrategyNone } :
            /\ Cardinality({ m \in ToSet(ServiceNames) : fams[m] # <<OldSha>> }) <= 1
            /\ updateStrategy = strategy
            /\ services = [n \in ToSet(ServiceNames) |-> NewService(n, urls[n], strategy)]
            /\ tasks = [n \in ToSet(ScheduledTaskNames) |-> NewScheduledTask(n, strategy)]
            /\ ecs = [n \in AllNames |->
                        IF n \in ToSet(ServiceNames)
                        THEN [TaskDefinition |-> 1, family |-> fams[n]]
                        ELSE [TaskDefinition |-> 1, family |-> <<OldSha>>]]
    /\ ecs0 = ecs
    /\ eb = [n \in ToSet(ScheduledTaskNames) |-> 1]
    /\ pc = "UpdateScheduledTasks"
    /\ IdleExecutor
    /\ leaked = {}
    /\ locals = NoLocals
    /\ rbServices = <<>>
    /\ trace = <<>>
    /\ swaps = [n \in ToSet(ServiceNames) |-> 0]
    /\ exitCode = "running"
    /\ match = NoMatch
    /\ parsed = NoParsed

----------------------------------------------------------------------------
(* package deploy: the stage functions *)

Result(name, err) == [Service |-> name, Err |-> err]

\* The argument a call site passes to its stage.
InputOf(site) ==
    CASE site \in { "UpdateScheduledTasks", "rb.RollbackScheduledTasks" } ->
            SelectSeq(TwoScheduledTaskNames, LAMBDA n : n \in DOMAIN tasks)
      [] site \in { "Deploy", "CheckDeployed", "CheckDrained" } -> ServiceNames
      [] OTHER -> rbServices

\* A call whose deadline would already be running when it starts, as with one deadline
\* shared by the whole run.
SpawnWithRunningTimer(site, first) ==
    LET input == InputOf(site)
    IN  /\ pc = site
        /\ exec = "idle"
        /\ stageInput' = input
        /\ task' = [n \in AllNames |-> IF n \in ToSet(input) THEN first[n] ELSE "none"]
        /\ results' = <<>>
        /\ iter' = 0
        /\ completed' = {}
        /\ timer' = IF trace = <<>> THEN 0 ELSE 1
        /\ elapsed' = 0
        /\ trace' = Append(trace, [site |-> site, input |-> input])

\* The call: `for _, s := range services { go func ... }` and the empty result list.
Spawn(site, first) ==
    LET input == InputOf(site)
    IN  /\ pc = site
        /\ exec = "idle"
        /\ stageInput' = input
        /\ task' = [n \in AllNames |-> IF n \in ToSet(input) THEN first[n] ELSE "none"]
        /\ results' = <<>>
        /\ iter' = 0
        /\ completed' = {}
        /\ timer' = 0
        /\ elapsed' = 0
        /\ trace' = Append(trace, [site |-> site, input |-> input])

\* Deploy, UpdateScheduledTasks, RollbackScheduledTasks: one goroutine per unit.
StartOneShot ==
    /\ pc \in { "UpdateScheduledTasks", "Deploy", "rb.RollbackScheduledTasks" }
    /\ Spawn(pc, [n \in AllNames |-> "run"])
    /\ exec' = IF InputOf(pc) = <<>> THEN "ret" ELSE "wait"
    /\ pending' = [n \in AllNames |-> Nil]
    /\ sleep' = [n \in AllNames |-> 0]
    /\ UNCHANGED <<services, tasks, ecs, ecs0, eb, updateStrategy, pc, leaked, locals,
                   rbServices, swaps, exitCode, match,
                   drainResp, parsed>>

\* The goroutine of Deploy: awsecs.Deploy, then the send of the result.
DeployTask(n) ==
    /\ pc = "Deploy"
    /\ task[n] = "run"
    /\ \E fail \in BackendFailures :
        LET r == awsDeploy(services[n], ecs[n], fail)
        IN  /\ services' = [services EXCEPT ![n] = r.service]
            /\ ecs' = [ecs EXCEPT ![n] = r.be]
            /\ pending' = [pending EXCEPT ![n] = r.err]
    /\ task' = [task EXCEPT ![n] = "send"]
    /\ UNCHANGED <<tasks, ecs0, eb, updateStrategy, pc, exec, stageInput, results, iter,
                   completed, timer, elapsed, sleep, leaked, locals, rbServices, trace,
                   swaps, exitCode, match,
                   drainResp, parsed>>

\* The goroutine of UpdateScheduledTasks / RollbackScheduledTasks.
ScheduledTaskTask(n) ==
    /\ pc \in { "UpdateScheduledTasks", "rb.RollbackScheduledTasks" }
    /\ task[n] = "run"
    /\ \E fail \in ScheduledTaskFailures :
        LET r == UpdateScheduledTask(tasks[n], ecs[n], eb[n],
                                     pc = "rb.RollbackScheduledTasks", fail)
        IN  /\ tasks' = [tasks EXCEPT ![n] = r.task]
            /\ ecs' = [ecs EXCEPT ![n] = r.be]
            /\ eb' = [eb EXCEPT ![n] = r.target]
            /\ pending' = [pending EXCEPT ![n] = r.err]
    /\ task' = [task EXCEPT ![n] = "send"]
    /\ UNCHANGED <<services, ecs0, updateStrategy, pc, exec, stageInput, results, iter,
                   completed, timer, elapsed, sleep, leaked, locals, rbServices, trace,
                   swaps, exitCode, match,
                   drainResp, parsed>>

\* Rollback: the call; the spawn loop has not begun.
StartRollback ==
    /\ pc = "rb.Rollback"
    /\ Spawn(pc, [n \in AllNames |-> "unspawned"])
    /\ exec' = IF InputOf(pc) = <<>> THEN "ret" ELSE "spawn"
    /\ pending' = [n \in AllNames |-> Nil]
    /\ sleep' = [n \in AllNames |-> 0]
    /\ UNCHANGED <<services, tasks, ecs, ecs0, eb, updateStrategy, pc, leaked, locals,
                   rbServices, swaps, exitCode, match,
                   drainResp, parsed>>

SwapGitshaOnly(s) ==
    [s EXCEPT !.Gitsha = s.PreviousGitsha,
              !.PreviousGitsha = s.Gitsha]

\* The swap of Rollback: Gitsha with PreviousGitsha, TaskDefinitionARN with
\* PreviousTaskDefinitionARN.
SwapPointers(s) ==
    [s EXCEPT !.Gitsha = s.PreviousGitsha,
              !.PreviousGitsha = s.Gitsha,
              !.TaskDefinitionARN = s.PreviousTaskDefinitionARN,
              !.PreviousTaskDefinitionARN = s.TaskDefinitionARN]

\* One iteration of the spawn loop of Rollback: swap the pointers of the next service,
\* start its goroutine.
RollbackSpawn ==
    /\ pc = "rb.Rollback"
    /\ exec = "spawn"
    /\ LET k == CHOOSE j \in 1..Len(stageInput) :
                    /\ task[stageInput[j]] = "unspawned"
                    /\ \A h \in 1..(j - 1) : task[stageInput[h]] # "unspawned"
           n == stageInput[k]
       IN  /\ services' = [services EXCEPT ![n] = SwapPointers(services[n])]
           /\ swaps' = [swaps EXCEPT ![n] = @ + 1]
           /\ task' = [task EXCEPT ![n] = "run"]
           /\ exec' = IF k = Len(stageInput) THEN "wait" ELSE "spawn"
    /\ UNCHANGED <<tasks, ecs, ecs0, eb, updateStrategy, pc, stageInput, pending, results,
                   iter, completed, timer, elapsed, sleep, leaked, locals, rbServices,
                   trace, exitCode, match,
                   drainResp, parsed>>

\* A revert that would swap the pointers of the service back when its call fails.
RollbackTaskUndoingSwapOnError(n) ==
    /\ pc = "rb.Rollback"
    /\ task[n] = "run"
    /\ \E fail \in { "none", "UpdateService" } :
        LET r == UpdateService(services[n], ecs[n], fail)
        IN  /\ ecs' = [ecs EXCEPT ![n] = r.be]
            /\ pending' = [pending EXCEPT ![n] = r.err]
            /\ services' = IF r.err = Nil THEN services
                           ELSE [services EXCEPT ![n] = SwapPointers(services[n])]
    /\ task' = [task EXCEPT ![n] = "send"]
    /\ UNCHANGED <<tasks, ecs0, eb, updateStrategy, pc, exec, stageInput,
                   results, iter, completed, timer, elapsed, sleep, leaked, locals,
                   rbServices, trace, swaps, exitCode, match,
                   drainResp, parsed>>

\* A revert that would go through the whole of awsecs.Deploy again.
RollbackTaskRedeploying(n) ==
    /\ pc = "rb.Rollback"
    /\ task[n] = "run"
    /\ \E fail \in { "none", "UpdateService" } :
        LET r == awsDeploy(services[n], ecs[n], fail)
        IN  /\ ecs' = [ecs EXCEPT ![n] = r.be]
            /\ pending' = [pending EXCEPT ![n] = r.err]
    /\ task' = [task EXCEPT ![n] = "send"]
    /\ UNCHANGED <<services, tasks, ecs0, eb, updateStrategy, pc, exec, stageInput,
                   results, iter, completed, timer, elapsed, sleep, leaked, locals,
                   rbServices, trace, swaps, exitCode, match,
                   drainResp, parsed>>

\* The goroutine of Rollback: awsecs.UpdateService, then the send of the result.
RollbackTask(n) ==
    /\ pc = "rb.Rollback"
    /\ task[n] = "run"
    /\ \E fail \in { "none", "UpdateService" } :
        LET r == UpdateService(services[n], ecs[n], fail)
        IN  /\ ecs' = [ecs EXCEPT ![n] = r.be]
            /\ pending' = [pending EXCEPT ![n] = r.err]
    /\ task' = [task EXCEPT ![n] = "send"]
    /\ UNCHANGED <<services, tasks, ecs0, eb, updateStrategy, pc, exec, stageInput,
                   results, iter, completed, timer, elapsed, sleep, leaked, locals,
                   rbServices, trace, swaps, exitCode, match,
                   drainResp, parsed>>

\* `results[i] = <-resultChan` of the stages without a deadline; after the last one the
\* stage returns.
OneShotReceive(n) ==
    /\ pc \in { "UpdateScheduledTasks", "Deploy", "rb.Rollback", "rb.RollbackScheduledTasks" }
    /\ exec = "wait"
    /\ task[n] = "send"
    /\ results' = Append(results, Result(n, pending[n]))
    /\ iter' = iter + 1
    /\ IF iter + 1 = Len(stageInput)
       THEN /\ exec' = "ret"
            /\ task' = [m \in AllNames |-> "none"]
            /\ pending' = [m \in AllNames |-> Nil]
       ELSE /\ exec' = "wait"
            /\ task' = [task EXCEPT ![n] = "done"]
            /\ pending' = [pending EXCEPT ![n] = Nil]
    /\ UNCHANGED <<services, tasks, ecs, ecs0, eb, updateStrategy, pc, stageInput,
                   completed, timer, elapsed, sleep, leaked, locals, rbServices, trace,
                   swaps, exitCode, match,
                   drainResp, parsed>>

NoDeployCheckURLNever(service) == FALSE

\* `if service.URL == ""` of the goroutine of CheckDeployed
NoDeployCheckURL(service) == service.URL = ""

\* CheckDeployed: the call.  A goroutine whose service has no URL is at once sending
\* ErrNoDeployCheckURL; the others sleep for the check interval.
StartCheckDeployed ==
    /\ pc \in CheckDeployedSites
    /\ Spawn(pc, [n \in AllNames |->
                    IF n \in DOMAIN services /\ NoDeployCheckURL(services[n])
                    THEN "send" ELSE "sleep"])
    /\ pending' = [n \in AllNames |->
                    IF n \in ToSet(InputOf(pc)) /\ NoDeployCheckURL(services[n])
                    THEN ErrNoDeployCheckURL ELSE Nil]
    /\ sleep' = [n \in AllNames |->
                    IF n \in ToSet(InputOf(pc)) /\ ~NoDeployCheckURL(services[n])
                    THEN checkIntervalDuration ELSE 0]
    /\ exec' = IF InputOf(pc) = <<>> THEN "ret" ELSE "wait"
    /\ UNCHANGED <<services, tasks, ecs, ecs0, eb, updateStrategy, pc, leaked, locals,
                   rbServices, swaps, exitCode, match,
                   drainResp, parsed>>

\* CheckDrained: the call.  Every goroutine sleeps for the check interval.
StartCheckDrained ==
    /\ pc \in CheckDrainedSites
    /\ Spawn(pc, [n \in AllNames |-> "sleep"])
    /\ pending' = [n \in AllNames |-> Nil]
    /\ sleep' = [n \in AllNames |->
                    IF n \in ToSet(InputOf(pc)) THEN checkIntervalDuration ELSE 0]
    /\ exec' = IF InputOf(pc) = <<>> THEN "ret" ELSE "wait"
    /\ drainResp' = [n \in ToSet(ServiceNames) |-> NoDrainResp]
    /\ UNCHANGED <<services, tasks, ecs, ecs0, eb, updateStrategy, pc, leaked, locals,
                   rbServices, swaps, exitCode, match, parsed>>

\* A poll that would note the version it saw on the service record.
CheckDeployedPollWritingService(n) ==
    /\ pc \in CheckDeployedSites
    /\ exec = "wait"
    /\ task[n] = "probe"
    /\ \E resp \in Responses :
        LET f == fetchRevisionSha(resp)
        IN  IF f.err = Nil /\ ShaMatches(services[n].Gitsha, f.sha)
            THEN /\ task' = [task EXCEPT ![n] = "send"]
                 /\ pending' = [pending EXCEPT ![n] = Nil]
                 /\ sleep' = sleep
                 /\ services' = [services EXCEPT ![n].PreviousGitsha = services[n].Gitsha]
            ELSE /\ task' = [task EXCEPT ![n] = "sleep"]
                 /\ pending' = pending
                 /\ sleep' = [sleep EXCEPT ![n] = checkIntervalDuration]
                 /\ services' = services
    /\ UNCHANGED <<tasks, ecs, ecs0, eb, updateStrategy, pc, exec, stageInput,
                   results, iter, completed, timer, elapsed, leaked, locals, rbServices,
                   trace, swaps, exitCode, match,
                   drainResp, parsed>>

\* A poll that would give up on a fetch error and send it as the service's result.
CheckDeployedPollSurfacingErrors(n) ==
    /\ pc \in CheckDeployedSites
    /\ exec = "wait"
    /\ task[n] = "probe"
    /\ \E resp \in Responses :
        LET f == fetchRevisionSha(resp)
        IN  IF f.err = Nil /\ ShaMatches(services[n].Gitsha, f.sha)
            THEN /\ task' = [task EXCEPT ![n] = "send"]
                 /\ pending' = [pending EXCEPT ![n] = Nil]
                 /\ sleep' = sleep
            ELSE IF f.err # Nil
            THEN /\ task' = [task EXCEPT ![n] = "send"]
                 /\ pending' = [pending EXCEPT ![n] = f.err]
                 /\ sleep' = sleep
            ELSE /\ task' = [task EXCEPT ![n] = "sleep"]
                 /\ pending' = pending
                 /\ sleep' = [sleep EXCEPT ![n] = checkIntervalDuration]
    /\ UNCHANGED <<services, tasks, ecs, ecs0, eb, updateStrategy, pc, exec, stageInput,
                   results, iter, completed, timer, elapsed, leaked, locals, rbServices,
                   trace, swaps, exitCode, match,
                   drainResp, parsed>>

\* One poll of the goroutine of CheckDeployed after its sleep: fetch the version the
\* URL serves; on a match send success, otherwise (also on a fetch error) sleep again.
CheckDeployedPoll(n) ==
    /\ pc \in CheckDeployedSites
    /\ exec = "wait"
    /\ task[n] = "probe"
    /\ \E resp \in Responses :
        LET f == fetchRevisionSha(resp)
        IN  IF f.err = Nil /\ ShaMatches(services[n].Gitsha, f.sha)
            THEN /\ task' = [task EXCEPT ![n] = "send"]
                 /\ pending' = [pending EXCEPT ![n] = Nil]
                 /\ sleep' = sleep
            ELSE /\ task' = [task EXCEPT ![n] = "sleep"]
                 /\ pending' = pending
                 /\ sleep' = [sleep EXCEPT ![n] = checkIntervalDuration]
    /\ UNCHANGED <<services, tasks, ecs, ecs0, eb, updateStrategy, pc, exec, stageInput,
                   results, iter, completed, timer, elapsed, leaked, locals, rbServices,
                   trace, swaps, exitCode, match,
                   drainResp, parsed>>

\* A goroutine that would retry after an error of CheckDrain instead of reporting it.
DrainPollRetryingErrors(service, resp) ==
    LET d == CheckDrain(service, resp)
    IN  IF d.err = Nil /\ d.drained THEN [next |-> "send", err |-> Nil]
        ELSE [next |-> "sleep", err |-> Nil]

\* What the goroutine of CheckDrained does with one answer of awsecs.CheckDrain: on an
\* error send it and return, when not drained continue with the next sleep, else send
\* success and return.
DrainPoll(service, resp) ==
    LET d == CheckDrain(service, resp)
    IN  IF d.err # Nil THEN [next |-> "send", err |-> d.err]
        ELSE IF ~d.drained THEN [next |-> "sleep", err |-> Nil]
        ELSE [next |-> "send", err |-> Nil]

\* One poll of the goroutine of CheckDrained after its sleep: an error of CheckDrain is
\* sent as the result, drained is sent as success, otherwise sleep again.
CheckDrainedPoll(n) ==
    /\ pc \in CheckDrainedSites
    /\ exec = "wait"
    /\ task[n] = "probe"
    /\ \E resp \in DrainResponses(ecs[n]) :
        LET d == DrainPoll(services[n], resp)
        IN  IF d.next = "send"
            THEN /\ task' = [task EXCEPT ![n] = "send"]
                 /\ pending' = [pending EXCEPT ![n] = d.err]
                 /\ sleep' = sleep
                 /\ drainResp' =
                        IF d.err = Nil
                        THEN [drainResp EXCEPT ![n] = [primary |-> resp.primary,
                                                       running |-> resp.running,
                                                       desired |-> resp.desired]]
                        ELSE drainResp
            ELSE /\ task' = [task EXCEPT ![n] = "sleep"]
                 /\ pending' = pending
                 /\ sleep' = [sleep EXCEPT ![n] = checkIntervalDuration]
                 /\ drainResp' = drainResp
    /\ UNCHANGED <<services, tasks, ecs, ecs0, eb, updateStrategy, pc, exec, stageInput,
                   results, iter, completed, timer, elapsed, leaked, locals, rbServices,
                   trace, swaps, exitCode, match, parsed>>

\* `case <-time.After(timeoutDuration)` is ready: the timer the current select created
\* has run for timeoutDuration.
TimerFired == timer >= timeoutDuration

\* The polling goroutines of the running stage that have not ended.
Alive == { n \in ToSet(stageInput) : task[n] \in { "sleep", "probe", "send" } }

\* The goroutines names of the running stage as they stay behind when it returns: one
\* that is sending stays blocked on its send, the others go on polling.
LeftBehind(names) ==
    { <<pc, m, IF task[m] = "send" THEN "send" ELSE "poll">> : m \in names }

\* The result list a polling stage returns once its collect loop has ended with the
\* completed set done: the collected results, then ErrTimedOut for every service, in
\* input order, that is not in the set.
TimedOutResultsForAll(input, done) ==
    [k \in 1..Len(input) |-> Result(input[k], ErrTimedOut)]

\* A return that would leave out the services without a report.
TimedOutResultsOmitted(input, done) == <<>>

RECURSIVE TimedOutResults(_, _)
TimedOutResults(input, done) ==
    IF input = <<>> THEN <<>>
    ELSE IF Head(input) \in done THEN TimedOutResults(Tail(input), done)
    ELSE <<Result(Head(input), ErrTimedOut)>> \o TimedOutResults(Tail(input), done)

\* Time passes for the waiting collector and the sleeping goroutines.  It does not pass
\* while a result can be handed over or the timer has fired.
Tick ==
    /\ pc \in PollingSites
    /\ exec = "wait"
    /\ ~TimerFired
    /\ \A n \in ToSet(stageInput) : task[n] # "send"
    /\ timer' = timer + 1
    /\ elapsed' = elapsed + 1
    /\ sleep' = [n \in AllNames |-> IF task[n] = "sleep" THEN sleep[n] - 1 ELSE sleep[n]]
    /\ task' = [n \in AllNames |->
                    IF task[n] = "sleep" /\ sleep[n] - 1 = 0 THEN "probe" ELSE task[n]]
    /\ UNCHANGED <<services, tasks, ecs, ecs0, eb, updateStrategy, pc, exec, stageInput,
                   pending, results, iter, completed, leaked, locals, rbServices, trace,
                   swaps, exitCode, match,
                   drainResp, parsed>>

\* A collect loop that would receive from one channel shared by all calls: a goroutine
\* left behind by an earlier call hands its result to the running one.
PollingReceiveFromAnyChannel(n) ==
    /\ pc \in PollingSites
    /\ exec = "wait"
    /\ \/ task[n] = "send"
       \/ \E g \in leaked : g[2] = n /\ g[3] = "send"
    /\ LET late == task[n] # "send"
           got == Append(results, Result(n, IF late THEN Nil ELSE pending[n]))
           done == completed \cup { n }
           blocked == { g \in leaked : ~(late /\ g[2] = n /\ g[3] = "send") }
       IN  /\ completed' = done
           /\ iter' = iter + 1
           /\ timer' = 0
           /\ IF iter + 1 = Len(stageInput)
              THEN /\ results' = got \o TimedOutResults(stageInput, done)
                   /\ exec' = "ret"
                   /\ leaked' = blocked \cup LeftBehind(Alive \ { n })
                   /\ task' = [m \in AllNames |-> "none"]
                   /\ pending' = [m \in AllNames |-> Nil]
                   /\ sleep' = [m \in AllNames |-> 0]
              ELSE /\ results' = got
                   /\ exec' = "wait"
                   /\ leaked' = blocked
                   /\ task' = [task EXCEPT ![n] = IF late THEN task[n] ELSE "done"]
                   /\ pending' = [pending EXCEPT ![n] = IF late THEN pending[n] ELSE Nil]
                   /\ sleep' = sleep
    /\ UNCHANGED <<services, tasks, ecs, ecs0, eb, updateStrategy, pc, stageInput,
                   elapsed, locals, rbServices, trace, swaps, exitCode, match,
                   drainResp, parsed>>

\* A collect loop that would give up on the first error: the stage returns at once and
\* the services still waited for are reported as timed out.
PollingReceiveAbortingOnError(n) ==
    /\ pc \in PollingSites
    /\ exec = "wait"
    /\ task[n] = "send"
    /\ LET got == Append(results, Result(n, pending[n]))
           done == completed \cup { n }
       IN  /\ completed' = done
           /\ iter' = iter + 1
           /\ timer' = 0
           /\ IF iter + 1 = Len(stageInput) \/ pending[n] # Nil
              THEN /\ results' = got \o TimedOutResults(stageInput, done)
                   /\ exec' = "ret"
                   /\ leaked' = leaked \cup LeftBehind(Alive \ { n })
                   /\ task' = [m \in AllNames |-> "none"]
                   /\ pending' = [m \in AllNames |-> Nil]
                   /\ sleep' = [m \in AllNames |-> 0]
              ELSE /\ results' = got
                   /\ exec' = "wait"
                   /\ leaked' = leaked
                   /\ task' = [task EXCEPT ![n] = "done"]
                   /\ pending' = [pending EXCEPT ![n] = Nil]
                   /\ sleep' = sleep
    /\ UNCHANGED <<services, tasks, ecs, ecs0, eb, updateStrategy, pc, stageInput,
                   elapsed, locals, rbServices, trace, swaps, exitCode, match,
                   drainResp, parsed>>

\* `case result := <-resultChan` of CheckDeployed / CheckDrained: record the service as
\* completed, append its result; the next iteration's select creates a new timer.  After
\* len(services) iterations the loop ends and the stage returns.
PollingReceive(n) ==
    /\ pc \in PollingSites
    /\ exec = "wait"
    /\ task[n] = "send"
    /\ LET got == Append(results, Result(n, pending[n]))
           done == completed \cup { n }
       IN  /\ completed' = done
           /\ iter' = iter + 1
           /\ timer' = 0
           /\ IF iter + 1 = Len(stageInput)
              THEN /\ results' = got \o TimedOutResults(stageInput, done)
                   /\ exec' = "ret"
                   /\ leaked' = leaked \cup LeftBehind(Alive \ { n })
                   /\ task' = [m \in AllNames |-> "none"]
                   /\ pending' = [m \in AllNames |-> Nil]
                   /\ sleep' = [m \in AllNames |-> 0]
              ELSE /\ results' = got
                   /\ exec' = "wait"
                   /\ leaked' = leaked
                   /\ task' = [task EXCEPT ![n] = "done"]
                   /\ pending' = [pending EXCEPT ![n] = Nil]
                   /\ sleep' = sleep
    /\ UNCHANGED <<services, tasks, ecs, ecs0, eb, updateStrategy, pc, stageInput,
                   elapsed, locals, rbServices, trace, swaps, exitCode, match,
                   drainResp, parsed>>

PollingTimeoutMissing == FALSE /\ UNCHANGED vars

\* `case <-time.After(timeoutDuration)`: break out of the collect loop; the stage
\* returns, its unfinished goroutines stay behind.
PollingTimeout ==
    /\ pc \in PollingSites
    /\ exec = "wait"
    /\ TimerFired
    /\ results' = results \o TimedOutResults(stageInput, completed)
    /\ exec' = "ret"
    /\ leaked' = leaked \cup LeftBehind(Alive)
    /\ task' = [m \in AllNames |-> "none"]
    /\ pending' = [m \in AllNames |-> Nil]
    /\ sleep' = [m \in AllNames |-> 0]
    /\ timer' = 0
    /\ UNCHANGED <<services, tasks, ecs, ecs0, eb, updateStrategy, pc, stageInput,
                   iter, completed, elapsed, locals, rbServices, trace, swaps, exitCode,
                   match,
                   drainResp, parsed>>

\* The values a goroutine left behind by CheckDeployed can read as service.Gitsha: the
\* field is written by Rollback without synchronisation, so once the swap has been made
\* the read can give the value from before or from after it.
RacyGitsha(n) ==
    IF swaps[n] = 0 THEN { services[n].Gitsha }
    ELSE { services[n].Gitsha, services[n].PreviousGitsha }

\* A goroutine that its stage left behind polls on: when its check succeeds (or, in
\* CheckDrained, fails with an error) it sends on the channel of the stage that started
\* it, which nobody receives from any more, and blocks.
LeakedPoll(g) ==
    /\ g \in leaked
    /\ g[3] = "poll"
    /\ pc # "exit"
    /\ IF g[1] \in CheckDeployedSites
       THEN { resp \in Responses :
                \E target \in RacyGitsha(g[2]) :
                    /\ fetchRevisionSha(resp).err = Nil
                    /\ ShaMatches(target, fetchRevisionSha(resp).sha) } # {}
       ELSE { resp \in DrainResponses(ecs[g[2]]) :
                \/ CheckDrain(services[g[2]], resp).err # Nil
                \/ CheckDrain(services[g[2]], resp).drained } # {}
    /\ leaked' = (leaked \ { g }) \cup { <<g[1], g[2], "send">> }
    /\ UNCHANGED <<services, tasks, ecs, ecs0, eb, updateStrategy, pc, exec, stageInput,
                   task, pending, results, iter, completed, timer, elapsed, sleep, locals,
                   rbServices, trace, swaps, exitCode, match, drainResp, parsed>>

----------------------------------------------------------------------------
(* main.go: the run controller and performRollback *)

\* `result.Err != nil` for some result
AnyError(rs) == \E k \in 1..Len(rs) : rs[k].Err # Nil

CheckDeployedFailedIgnoringTimeouts(rs) ==
    \E k \in 1..Len(rs) : rs[k].Err \notin { Nil, ErrNoDeployCheckURL, ErrTimedOut }

\* The loop over the results of the forward CheckDeployed: nil and ErrNoDeployCheckURL
\* are skipped, anything else sets checkDeployedFailed.
CheckDeployedFailed(rs) ==
    \E k \in 1..Len(rs) : rs[k].Err # Nil /\ rs[k].Err # ErrNoDeployCheckURL

\* A performRollback that would not look at the results of its CheckDeployed.
RollbackCheckDeployedFailedNever(rs) == FALSE

\* The loop over the results of the CheckDeployed of performRollback: only nil is
\* skipped.
RollbackCheckDeployedFailed(rs) == AnyError(rs)

AllServicesOf(rs) == [k \in 1..Len(rs) |-> rs[k].Service]

\* succeededServices: the services of the results without error, in result order.
RECURSIVE SucceededServices(_)
SucceededServices(rs) ==
    IF rs = <<>> THEN <<>>
    ELSE IF Head(rs).Err = Nil
    THEN <<Head(rs).Service>> \o SucceededServices(Tail(rs))
    ELSE SucceededServices(Tail(rs))

\* The stage at pc has returned and main / performRollback goes on to the call at site.
Goto(site) ==
    /\ pc' = site
    /\ exec' = "idle"
    /\ exitCode' = exitCode
    /\ leaked' = leaked
    /\ stageInput' = <<>>
    /\ results' = <<>>
    /\ iter' = 0
    /\ completed' = {}
    /\ elapsed' = 0

\* fatal.Exit (status "1") or the return from main (status "0"): the process ends, and its
\* goroutines with it.
Exit(code) ==
    /\ pc' = "exit"
    /\ exec' = "idle"
    /\ exitCode' = code
    /\ leaked' = {}
    /\ stageInput' = <<>>
    /\ results' = <<>>
    /\ iter' = 0
    /\ completed' = {}
    /\ elapsed' = 0

\* A main that would roll the scheduled tasks back when the update of one of them
\* failed.
AfterUpdateScheduledTasksRollingBack ==
    /\ pc = "UpdateScheduledTasks"
    /\ exec = "ret"
    /\ IF AnyError(results)
       THEN /\ Goto("rb.RollbackScheduledTasks")
            /\ locals' = [locals EXCEPT !.updateScheduledTasksFailed = TRUE]
       ELSE /\ Goto(IF updateStrategy # UpdateStrategyNone THEN "Deploy" ELSE "CheckDeployed")
            /\ locals' = locals
    /\ UNCHANGED <<services, tasks, ecs, ecs0, eb, updateStrategy, task, pending, timer,
                   sleep, rbServices, trace, swaps, match,
                   drainResp, parsed>>

AfterUpdateScheduledTasksAlwaysDeploying ==
    /\ pc = "UpdateScheduledTasks"
    /\ exec = "ret"
    /\ IF AnyError(results)
       THEN /\ Exit("1")
            /\ locals' = [locals EXCEPT !.updateScheduledTasksFailed = TRUE,
                                        !.exitMsg = "Failed to update some scheduled tasks"]
       ELSE /\ Goto("Deploy")
            /\ locals' = locals
    /\ UNCHANGED <<services, tasks, ecs, ecs0, eb, updateStrategy, task, pending, timer,
                   sleep, rbServices, trace, swaps, match,
                   drainResp, parsed>>

\* main, after UpdateScheduledTasks returned.
AfterUpdateScheduledTasks ==
    /\ pc = "UpdateScheduledTasks"
    /\ exec = "ret"
    /\ IF AnyError(results)
       THEN /\ Exit("1")
            /\ locals' = [locals EXCEPT !.updateScheduledTasksFailed = TRUE,
                                        !.exitMsg = "Failed to update some scheduled tasks"]
       ELSE /\ Goto(IF updateStrategy # UpdateStrategyNone THEN "Deploy" ELSE "CheckDeployed")
            /\ locals' = locals
    /\ UNCHANGED <<services, tasks, ecs, ecs0, eb, updateStrategy, task, pending, timer,
                   sleep, rbServices, trace, swaps, match,
                   drainResp, parsed>>

\* main, after Deploy returned: on a failure performRollback(succeededServices).
AfterDeploy ==
    /\ pc = "Deploy"
    /\ exec = "ret"
    /\ LET succeededServices == SucceededServices(results)
           deployFailed == AnyError(results)
       IN  /\ locals' = [locals EXCEPT !.deployResults = results,
                                       !.deployFailed = deployFailed,
                                       !.succeededServices = succeededServices]
           /\ IF deployFailed
              THEN /\ Goto("rb.Rollback")
                   /\ rbServices' = succeededServices
              ELSE /\ Goto("CheckDeployed")
                   /\ rbServices' = rbServices
    /\ UNCHANGED <<services, tasks, ecs, ecs0, eb, updateStrategy, task, pending, timer,
                   sleep, trace, swaps, match,
                   drainResp, parsed>>

\* A main that would roll back after a failed CheckDeployed whatever the update
\* strategy.
AfterCheckDeployedAlwaysRollingBack ==
    /\ pc = "CheckDeployed"
    /\ exec = "ret"
    /\ LET checkDeployedFailed == CheckDeployedFailed(results)
       IN  IF checkDeployedFailed
           THEN /\ Goto("rb.Rollback")
                /\ locals' = [locals EXCEPT !.checkDeployedResults = results,
                                            !.checkDeployedFailed = TRUE]
                /\ rbServices' = ServiceNames
           ELSE /\ Goto("CheckDrained")
                /\ locals' = [locals EXCEPT !.checkDeployedResults = results]
                /\ rbServices' = rbServices
    /\ UNCHANGED <<services, tasks, ecs, ecs0, eb, updateStrategy, task, pending, timer,
                   sleep, trace, swaps, match,
                   drainResp, parsed>>

\* main, after the forward CheckDeployed returned: on a failure exit if deploying is
\* disabled, performRollback(parsedConfig.Services) otherwise.
AfterCheckDeployed ==
    /\ pc = "CheckDeployed"
    /\ exec = "ret"
    /\ LET checkDeployedFailed == CheckDeployedFailed(results)
           deployEnabled == updateStrategy # UpdateStrategyNone
       IN  IF checkDeployedFailed /\ ~deployEnabled
           THEN /\ Exit("1")
                /\ locals' = [locals EXCEPT !.checkDeployedResults = results,
                                            !.checkDeployedFailed = TRUE,
                                            !.exitMsg = "Deployment failed"]
                /\ rbServices' = rbServices
           ELSE IF checkDeployedFailed
           THEN /\ Goto("rb.Rollback")
                /\ locals' = [locals EXCEPT !.checkDeployedResults = results,
                                            !.checkDeployedFailed = TRUE]
                /\ rbServices' = ServiceNames
           ELSE /\ Goto("CheckDrained")
                /\ locals' = [locals EXCEPT !.checkDeployedResults = results]
                /\ rbServices' = rbServices
    /\ UNCHANGED <<services, tasks, ecs, ecs0, eb, updateStrategy, task, pending, timer,
                   sleep, trace, swaps, match,
                   drainResp, parsed>>

AfterCheckDrainedRollingBack ==
    /\ pc = "CheckDrained"
    /\ exec = "ret"
    /\ IF AnyError(results)
       THEN /\ Goto("rb.Rollback")
            /\ rbServices' = ServiceNames
            /\ locals' = [locals EXCEPT !.checkDrainedResults = results,
                                        !.checkDrainedFailed = TRUE]
       ELSE /\ Exit("0")
            /\ rbServices' = rbServices
            /\ locals' = [locals EXCEPT !.checkDrainedResults = results,
                                        !.exitMsg = "Finished deploying all services"]
    /\ UNCHANGED <<services, tasks, ecs, ecs0, eb, updateStrategy, task, pending, timer,
                   sleep, trace, swaps, match,
                   drainResp, parsed>>

AfterCheckDrainedFailing ==
    /\ pc = "CheckDrained"
    /\ exec = "ret"
    /\ Exit("1")
    /\ locals' = [locals EXCEPT !.checkDrainedResults = results,
                                !.checkDrainedFailed = AnyError(results),
                                !.exitMsg = "Finished deploying all services"]
    /\ UNCHANGED <<services, tasks, ecs, ecs0, eb, updateStrategy, task, pending, timer,
                   sleep, rbServices, trace, swaps, match,
                   drainResp, parsed>>

\* main, after the forward CheckDrained returned: failures are logged, main returns.
AfterCheckDrained ==
    /\ pc = "CheckDrained"
    /\ exec = "ret"
    /\ Exit("0")
    /\ locals' = [locals EXCEPT !.checkDrainedResults = results,
                                !.checkDrainedFailed = AnyError(results),
                                !.exitMsg = "Finished deploying all services"]
    /\ UNCHANGED <<services, tasks, ecs, ecs0, eb, updateStrategy, task, pending, timer,
                   sleep, rbServices, trace, swaps, match,
                   drainResp, parsed>>

AfterRollbackIgnoringFailure ==
    /\ pc = "rb.Rollback"
    /\ exec = "ret"
    /\ Goto("rb.CheckDeployed")
    /\ locals' = [locals EXCEPT !.rollbackResults = results,
                                !.rollbackFailed = AnyError(results)]
    /\ UNCHANGED <<services, tasks, ecs, ecs0, eb, updateStrategy, task, pending, timer,
                   sleep, rbServices, trace, swaps, match,
                   drainResp, parsed>>

AfterRollbackSkippingCheckDeployed ==
    /\ pc = "rb.Rollback"
    /\ exec = "ret"
    /\ IF AnyError(results)
       THEN /\ Exit("1")
            /\ locals' = [locals EXCEPT !.rollbackResults = results,
                                        !.rollbackFailed = TRUE,
                                        !.exitMsg = "Failed to create rollbacks for services"]
       ELSE /\ Goto("rb.CheckDrained")
            /\ locals' = [locals EXCEPT !.rollbackResults = results]
    /\ UNCHANGED <<services, tasks, ecs, ecs0, eb, updateStrategy, task, pending, timer,
                   sleep, rbServices, trace, swaps, match,
                   drainResp, parsed>>

\* performRollback, after Rollback returned: a failed revert ends the run.
AfterRollback ==
    /\ pc = "rb.Rollback"
    /\ exec = "ret"
    /\ IF AnyError(results)
       THEN /\ Exit("1")
            /\ locals' = [locals EXCEPT !.rollbackResults = results,
                                        !.rollbackFailed = TRUE,
                                        !.exitMsg = "Failed to create rollbacks for services"]
       ELSE /\ Goto("rb.CheckDeployed")
            /\ locals' = [locals EXCEPT !.rollbackResults = results]
    /\ UNCHANGED <<services, tasks, ecs, ecs0, eb, updateStrategy, task, pending, timer,
                   sleep, rbServices, trace, swaps, match,
                   drainResp, parsed>>

\* performRollback, after its CheckDeployed returned: any error ends the run.
AfterRollbackCheckDeployed ==
    /\ pc = "rb.CheckDeployed"
    /\ exec = "ret"
    /\ IF RollbackCheckDeployedFailed(results)
       THEN /\ Exit("1")
            /\ locals' = [locals EXCEPT !.rbCheckDeployedResults = results,
                                        !.rbCheckDeployedFailed = TRUE,
                                        !.exitMsg = "Failed to confirm services rolled back"]
       ELSE /\ Goto("rb.CheckDrained")
            /\ locals' = [locals EXCEPT !.rbCheckDeployedResults = results]
    /\ UNCHANGED <<services, tasks, ecs, ecs0, eb, updateStrategy, task, pending, timer,
                   sleep, rbServices, trace, swaps, match,
                   drainResp, parsed>>

AfterRollbackCheckDrainedFatal ==
    /\ pc = "rb.CheckDrained"
    /\ exec = "ret"
    /\ IF AnyError(results)
       THEN /\ Exit("1")
            /\ locals' = [locals EXCEPT !.rbCheckDrainedResults = results,
                                        !.rbCheckDrainedFailed = TRUE,
                                        !.exitMsg = "Failed to confirm services drained"]
       ELSE /\ Goto("rb.RollbackScheduledTasks")
            /\ locals' = [locals EXCEPT !.rbCheckDrainedResults = results]
    /\ UNCHANGED <<services, tasks, ecs, ecs0, eb, updateStrategy, task, pending, timer,
                   sleep, rbServices, trace, swaps, match,
                   drainResp, parsed>>

\* performRollback, after its CheckDrained returned: failures are logged, the scheduled
\* tasks are rolled back next.
AfterRollbackCheckDrained ==
    /\ pc = "rb.CheckDrained"
    /\ exec = "ret"
    /\ Goto("rb.RollbackScheduledTasks")
    /\ locals' = [locals EXCEPT !.rbCheckDrainedResults = results,
                                !.rbCheckDrainedFailed = AnyError(results)]
    /\ UNCHANGED <<services, tasks, ecs, ecs0, eb, updateStrategy, task, pending, timer,
                   sleep, rbServices, trace, swaps, match,
                   drainResp, parsed>>

\* A performRollback that would return to main when the scheduled tasks were rolled
\* back, main going on with its own CheckDeployed.
AfterRollbackScheduledTasksReturning ==
    /\ pc = "rb.RollbackScheduledTasks"
    /\ exec = "ret"
    /\ IF AnyError(results)
       THEN /\ Exit("1")
            /\ locals' = [locals EXCEPT
                            !.rollbackScheduledTasksFailed = TRUE,
                            !.exitMsg = "Failed to roll back some scheduled tasks"]
       ELSE /\ Goto("CheckDeployed")
            /\ locals' = locals
    /\ UNCHANGED <<services, tasks, ecs, ecs0, eb, updateStrategy, task, pending, timer,
                   sleep, rbServices, trace, swaps, match,
                   drainResp, parsed>>

\* performRollback, after RollbackScheduledTasks returned: the run ends as failed.
AfterRollbackScheduledTasks ==
    /\ pc = "rb.RollbackScheduledTasks"
    /\ exec = "ret"
    /\ Exit("1")
    /\ locals' = [locals EXCEPT
                    !.rollbackScheduledTasksFailed = AnyError(results),
                    !.exitMsg = IF AnyError(results)
                                THEN "Failed to roll back some scheduled tasks"
                                ELSE "Finished rolling back services"]
    /\ UNCHANGED <<services, tasks, ecs, ecs0, eb, updateStrategy, task, pending, timer,
                   sleep, rbServices, trace, swaps, match,
                   drainResp, parsed>>

Next ==
    \/ StartOneShot
    \/ \E n \in ToSet(ServiceNames) : DeployTask(n)
    \/ \E n \in DOMAIN tasks : ScheduledTaskTask(n)
    \/ StartRollback
    \/ RollbackSpawn
    \/ \E n \in ToSet(ServiceNames) : RollbackTask(n)
    \/ \E n \in AllNames : OneShotReceive(n)
    \/ StartCheckDeployed
    \/ StartCheckDrained
    \/ \E n \in ToSet(ServiceNames) : CheckDeployedPoll(n)
    \/ \E n \in ToSet(ServiceNames) : CheckDrainedPoll(n)
    \/ Tick
    \/ \E n \in ToSet(ServiceNames) : PollingReceive(n)
    \/ PollingTimeout
    \/ \E g \in leaked : LeakedPoll(g)
    \/ AfterUpdateScheduledTasks
    \/ AfterDeploy
    \/ AfterCheckDeployed
    \/ AfterCheckDrained
    \/ AfterRollback
    \/ AfterRollbackCheckDeployed
    \/ AfterRollbackCheckDrained
    \/ AfterRollbackScheduledTasks

Spec == Init /\ [][Next]_vars

SpecFair ==
    /\ Spec
    /\ WF_vars(Tick)
    /\ WF_vars(PollingTimeout)
    /\ WF_vars(\E n \in ToSet(ServiceNames) : PollingReceive(n))

----------------------------------------------------------------------------
(* package check: one deploy check, on its own *)

FullSha == "da39a3ee5e6b4b0d3255bfef95601890afd80709"

\* The tokens a URL is made to serve: every prefix of the version to deploy, and others.
Tokens ==
    { SubSeq(gitsha, 1, k) : k \in 0..Len(gitsha) }
        \cup { "xyz", "abc123dx", OldSha, SubSeq(FullSha, 1, 7), SubSeq(FullSha, 1, 8), FullSha }

\* The responses that serve a token, in the Server header or in the body, and the
\* failing ones.
TokenResponses ==
    { [err |-> FALSE, status |-> 200, server |-> "svc-api-" \o t, body |-> "OK"] : t \in Tokens }
        \cup { [err |-> FALSE, status |-> 200, server |-> "", body |-> t] : t \in Tokens }
        \cup { [err |-> TRUE, status |-> 0, server |-> "", body |-> ""],
               [err |-> FALSE, status |-> 500, server |-> "", body |-> gitsha] }

InitMatch ==
    /\ updateStrategy = UpdateStrategyCurrent
    /\ services = [n \in ToSet(ServiceNames) |-> NewService(n, "", updateStrategy)]
    /\ tasks = [n \in ToSet(ScheduledTaskNames) |-> NewScheduledTask(n, updateStrategy)]
    /\ ecs = [n \in AllNames |-> [TaskDefinition |-> 1, family |-> <<OldSha>>]]
    /\ ecs0 = ecs
    /\ eb = [n \in ToSet(ScheduledTaskNames) |-> 1]
    /\ pc = "UpdateScheduledTasks"
    /\ IdleExecutor
    /\ leaked = {}
    /\ locals = NoLocals
    /\ rbServices = <<>>
    /\ trace = <<>>
    /\ swaps = [n \in ToSet(ServiceNames) |-> 0]
    /\ exitCode = "running"
    /\ parsed = NoParsed
    /\ \E expectedSha \in { gitsha, OldSha, FullSha }, resp \in TokenResponses :
        match = [expectedSha |-> expectedSha, resp |-> resp, fetchedSha |-> "",
                 ok |-> "unset", err |-> Nil]

\* check.Deploy(url, expectedSha): fetch the served token, test it against the expected
\* version.
checkDeploy ==
    /\ match.ok = "unset"
    /\ LET f == fetchRevisionSha(match.resp)
       IN  match' = [match EXCEPT
                        !.fetchedSha = f.sha,
                        !.err = f.err,
                        !.ok = IF f.err = Nil /\ ShaMatches(match.expectedSha, f.sha)
                               THEN "true" ELSE "false"]
    /\ UNCHANGED <<services, tasks, ecs, ecs0, eb, updateStrategy, pc, exec, stageInput,
                   task, pending, results, iter, completed, timer, elapsed, sleep, leaked,
                   locals, rbServices, trace, swaps, exitCode,
                   drainResp, parsed>>

NextMatch == checkDeploy

SpecMatch == InitMatch /\ [][NextMatch]_vars

----------------------------------------------------------------------------
(* package deploy: Rollback on its own, called on services that were deployed *)

\* The number of times Rollback is called on the same services.
MaxRollbackCalls == 2

\* The record and the backend entry of the service n after a Deploy that succeeded on the
\* backend entry be.
Deployed(n, url, strategy, be) == awsDeploy(NewService(n, url, strategy), be, "none")

InitRollback ==
    /\ \E urls \in [ToSet(ServiceNames) -> URLs],
          fams \in [ToSet(ServiceNames) -> InitialFamilies],
          strategy \in { UpdateStrategyCurrent, UpdateStrategyLatest },
          input \in { ServiceNames, <<ServiceNames[2], ServiceNames[1]>>,
                      <<ServiceNames[1]>>, <<ServiceNames[2]>> } :
            /\ updateStrategy = strategy
            /\ ecs0 = [n \in AllNames |->
                        IF n \in ToSet(ServiceNames)
                        THEN [TaskDefinition |-> 1, family |-> fams[n]]
                        ELSE [TaskDefinition |-> 1, family |-> <<OldSha>>]]
            /\ services = [n \in ToSet(ServiceNames) |->
                            Deployed(n, urls[n], strategy, ecs0[n]).service]
            /\ ecs = [n \in AllNames |->
                        IF n \in ToSet(ServiceNames)
                        THEN Deployed(n, urls[n], strategy, ecs0[n]).be
                        ELSE ecs0[n]]
            /\ tasks = [n \in ToSet(ScheduledTaskNames) |-> NewScheduledTask(n, strategy)]
            /\ rbServices = input
    /\ eb = [n \in ToSet(ScheduledTaskNames) |-> 1]
    /\ pc = "rb.Rollback"
    /\ IdleExecutor
    /\ leaked = {}
    /\ locals = NoLocals
    /\ trace = <<>>
    /\ swaps = [n \in ToSet(ServiceNames) |-> 0]
    /\ exitCode = "running"
    /\ match = NoMatch
    /\ parsed = NoParsed

\* Rollback has returned and is called again with the same services.
RollbackAgain ==
    /\ pc = "rb.Rollback"
    /\ exec = "ret"
    /\ Len(trace) < MaxRollbackCalls
    /\ exec' = "idle"
    /\ stageInput' = <<>>
    /\ results' = <<>>
    /\ iter' = 0
    /\ UNCHANGED <<services, tasks, ecs, ecs0, eb, updateStrategy, pc, task, pending,
                   completed, timer, elapsed, sleep, leaked, locals, rbServices, trace,
                   swaps, exitCode, match,
                   drainResp, parsed>>

NextRollback ==
    \/ StartRollback
    \/ RollbackSpawn
    \/ \E n \in ToSet(ServiceNames) : RollbackTask(n)
    \/ \E n \in ToSet(ServiceNames) : OneShotReceive(n)
    \/ RollbackAgain

SpecRollback == InitRollback /\ [][NextRollback]_vars

----------------------------------------------------------------------------
(* main with two scheduled tasks *)

\* main after config.Read of a gehen.yml with two scheduled tasks and both services,
\* each with a check URL, found on the backend with a single revision of an older
\* version.
InitTasks ==
    /\ updateStrategy \in { UpdateStrategyCurrent, UpdateStrategyNone }
    /\ services = [n \in ToSet(ServiceNames) |->
                        NewService(n, "http://svc/ping", updateStrategy)]
    /\ tasks = [n \in ToSet(TwoScheduledTaskNames) |-> NewScheduledTask(n, updateStrategy)]
    /\ ecs = [n \in AllNames |-> [TaskDefinition |-> 1, family |-> <<OldSha>>]]
    /\ ecs0 = ecs
    /\ eb = [n \in ToSet(TwoScheduledTaskNames) |-> 1]
    /\ pc = "UpdateScheduledTasks"
    /\ IdleExecutor
    /\ leaked = {}
    /\ locals = NoLocals
    /\ rbServices = <<>>
    /\ trace = <<>>
    /\ swaps = [n \in ToSet(ServiceNames) |-> 0]
    /\ exitCode = "running"
    /\ match = NoMatch
    /\ parsed = NoParsed

SpecTasks == InitTasks /\ [][Next]_vars

----------------------------------------------------------------------------
(* package config: one call of Read, on its own *)

InitRead ==
    /\ updateStrategy = UpdateStrategyCurrent
    /\ services = [n \in ToSet(ServiceNames) |-> NewService(n, "", updateStrategy)]
    /\ tasks = [n \in ToSet(ScheduledTaskNames) |-> NewScheduledTask(n, updateStrategy)]
    /\ ecs = [n \in AllNames |-> [TaskDefinition |-> 1, family |-> <<OldSha>>]]
    /\ ecs0 = ecs
    /\ eb = [n \in ToSet(ScheduledTaskNames) |-> 1]
    /\ pc = "UpdateScheduledTasks"
    /\ IdleExecutor
    /\ leaked = {}
    /\ locals = NoLocals
    /\ rbServices = <<>>
    /\ trace = <<>>
    /\ swaps = [n \in ToSet(ServiceNames) |-> 0]
    /\ exitCode = "running"
    /\ match = NoMatch
    /\ \E f \in ConfigFiles, sha \in { gitsha, FullSha } :
        parsed = [NoParsed EXCEPT !.file = f, !.gitsha = sha]

\* parsedConfig, err := config.Read(configPath, gitsha)
configRead ==
    /\ ~parsed.done
    /\ \E serviceOrder \in MapOrders(parsed.file.services),
          taskOrder \in MapOrders(parsed.file.scheduledTasks) :
        LET r == Read(parsed.file, parsed.gitsha, serviceOrder, taskOrder)
        IN  parsed' = [parsed EXCEPT !.done = TRUE, !.cfg = r.cfg, !.err = r.err]
    /\ UNCHANGED <<services, tasks, ecs, ecs0, eb, updateStrategy, pc, exec, stageInput,
                   task, pending, results, iter, completed, timer, elapsed, sleep, leaked,
                   locals, rbServices, trace, swaps, exitCode, match, drainResp>>

NextRead == configRead

SpecRead == InitRead /\ [][NextRead]_vars

----------------------------------------------------------------------------
(* Properties *)

ServiceStageSites ==
    { "Deploy", "rb.Rollback", "CheckDeployed", "CheckDrained", "rb.CheckDeployed",
      "rb.CheckDrained" }

\* The number of results of rs that are about the unit n.
Occurrences(rs, n) == Cardinality({ k \in 1..Len(rs) : rs[k].Service = n })

\* The errors rs holds for the unit n.
ErrorsOf(rs, n) == { rs[k].Err : k \in { j \in 1..Len(rs) : rs[j].Service = n } }

\* The calls of the stage at site made so far.
Calls(site) == { k \in 1..Len(trace) : trace[k].site = site }

Called(site) == Calls(site) # {}

\* C1: when Deploy, Rollback, CheckDeployed or CheckDrained returns, its result list
\* holds every input service exactly once, so it is as long as the input, also when
\* the timeout fired before any service reported.
C1_EveryServiceExactlyOnce ==
    (pc \in ServiceStageSites /\ exec = "ret") =>
        /\ Len(results) = Len(stageInput)
        /\ \A n \in ToSet(stageInput) : Occurrences(results, n) = 1

\* CheckDeployed of two services returned after its timeout fired before any report.
C1_Witness ==
    /\ pc = "CheckDeployed"
    /\ exec = "ret"
    /\ completed = {}
    /\ Len(stageInput) = 2
    /\ \A k \in 1..Len(results) : results[k].Err = ErrTimedOut

\* C2: Rollback is called at most once, and only over the services whose Deploy result has
\* no error when Deploy failed for some service, or over all services when the forward
\* CheckDeployed failed; a service whose Deploy failed never has its pointers swapped.
C2_RollbackOnlyOverTheseSets ==
    /\ Cardinality(Calls("rb.Rollback")) <= 1
    /\ \A k \in Calls("rb.Rollback") :
        \/ /\ \E j \in 1..Len(locals.deployResults) : locals.deployResults[j].Err # Nil
           /\ ToSet(trace[k].input) =
                { n \in ToSet(ServiceNames) : ErrorsOf(locals.deployResults, n) = { Nil } }
           /\ Len(trace[k].input) = Cardinality(ToSet(trace[k].input))
        \/ /\ \A j \in 1..Len(locals.deployResults) : locals.deployResults[j].Err = Nil
           /\ \E j \in 1..Len(locals.checkDeployedResults) :
                locals.checkDeployedResults[j].Err \notin { Nil, ErrNoDeployCheckURL }
           /\ trace[k].input = ServiceNames
    /\ \A n \in ToSet(ServiceNames) :
        (\E e \in ErrorsOf(locals.deployResults, n) : e # Nil) => swaps[n] = 0

\* Deploy failed for one service and Rollback ran over the other one only.
C2_Witness ==
    /\ \E k \in Calls("rb.Rollback") : Len(trace[k].input) = 1
    /\ \E n \in ToSet(ServiceNames) : swaps[n] = 1
    /\ \E n \in ToSet(ServiceNames) : Nil \notin ErrorsOf(locals.deployResults, n)
    /\ pc = "exit"

\* C3: once the forward CheckDrained has been reached (Deploy and CheckDeployed succeeded
\* for every service), whatever it returns, neither Rollback nor RollbackScheduledTasks is
\* called and no service has its pointers swapped.
C3_DrainFailureNeverRollsBack ==
    Called("CheckDrained") =>
        /\ ~Called("rb.Rollback")
        /\ ~Called("rb.RollbackScheduledTasks")
        /\ pc \in { "CheckDrained", "exit" }
        /\ \A n \in ToSet(ServiceNames) : swaps[n] = 0

\* A run with deploying enabled ended after its CheckDrained returned a backend error
\* for one service and ErrTimedOut for the other.
C3_Witness ==
    /\ pc = "exit"
    /\ updateStrategy # UpdateStrategyNone
    /\ locals.checkDrainedFailed
    /\ \E j, k \in 1..Len(locals.checkDrainedResults) :
        /\ locals.checkDrainedResults[j].Err = ErrTimedOut
        /\ locals.checkDrainedResults[k].Err \notin { Nil, ErrTimedOut }

\* The forward CheckDeployed returned ErrTimedOut, or an error other than
\* ErrNoDeployCheckURL, for some service, and main has gone through its results.
ForwardCheckDeployedFailure ==
    \E j \in 1..Len(locals.checkDeployedResults) :
        locals.checkDeployedResults[j].Err \notin { Nil, ErrNoDeployCheckURL }

\* C4: with an update strategy other than none, if the forward CheckDeployed returned a
\* failure for some service then performRollback is entered over all services, the run
\* never goes on to the forward CheckDrained, and it can only end with status 1.
C4_CheckDeployedFailureRollsAllBack ==
    (ForwardCheckDeployedFailure /\ updateStrategy # UpdateStrategyNone) =>
        /\ \A j \in 1..Len(locals.deployResults) : locals.deployResults[j].Err = Nil
        /\ rbServices = ServiceNames
        /\ \/ pc = "rb.Rollback" /\ exec = "idle"
           \/ \E k \in Calls("rb.Rollback") : trace[k].input = ServiceNames
        /\ ~Called("CheckDrained")
        /\ pc # "CheckDrained"
        /\ exitCode \in { "running", "1" }
        /\ pc = "exit" => exitCode = "1"

\* A run whose forward CheckDeployed timed out for a service ended, after Rollback had
\* been called over both services.
C4_Witness ==
    /\ pc = "exit"
    /\ exitCode = "1"
    /\ updateStrategy # UpdateStrategyNone
    /\ \E j \in 1..Len(locals.checkDeployedResults) :
        locals.checkDeployedResults[j].Err = ErrTimedOut
    /\ \E k \in Calls("rb.Rollback") : trace[k].input = ServiceNames

\* C5: an ErrNoDeployCheckURL result never counts as a failure: the failure flag of the
\* forward CheckDeployed and the one of the CheckDeployed of performRollback are set only
\* if some result carries an error other than ErrNoDeployCheckURL.
C5_NoCheckURLNeverAFailure ==
    /\ locals.checkDeployedFailed =>
        \E j \in 1..Len(locals.checkDeployedResults) :
            locals.checkDeployedResults[j].Err \notin { Nil, ErrNoDeployCheckURL }
    /\ locals.rbCheckDeployedFailed =>
        \E j \in 1..Len(locals.rbCheckDeployedResults) :
            locals.rbCheckDeployedResults[j].Err \notin { Nil, ErrNoDeployCheckURL }

\* C6: a polling stage never waits longer than timeoutDuration after it began.
C6_OneDeadlinePerStage ==
    (pc \in PollingSites /\ exec = "wait") => elapsed <= timeoutDuration

\* Deploy returned no error for the service n.
DeploySucceeded(n) == ErrorsOf(locals.deployResults, n) = { Nil }

\* C8: a service whose Deploy succeeded and that Rollback has swapped has the Gitsha of
\* the image it ran before Deploy and the TaskDefinitionARN of the revision it used
\* before Deploy.
C8_RollbackRestoresPreDeployState ==
    \A n \in ToSet(ServiceNames) :
        (DeploySucceeded(n) /\ swaps[n] = 1) =>
            /\ services[n].Gitsha = ecs0[n].family[ecs0[n].TaskDefinition]
            /\ services[n].TaskDefinitionARN = ecs0[n].TaskDefinition

\* C7: CheckDeployed and CheckDrained always return, also when no service ever reports;
\* a service that did not report is returned with ErrTimedOut.
C7_PollingStagesReturn ==
    /\ [](  (pc \in PollingSites /\ exec = "ret") =>
                \A n \in ToSet(stageInput) \ completed :
                    ErrorsOf(results, n) = { ErrTimedOut })
    /\ (pc \in PollingSites /\ exec = "wait") ~> (pc \in PollingSites /\ exec = "ret")

\* CheckDeployed returned ErrTimedOut for two services with a URL that never served the
\* version, after the timeout.
C7_Witness ==
    /\ pc \in CheckDeployedSites
    /\ exec = "ret"
    /\ elapsed >= timeoutDuration
    /\ Len(results) = 2
    /\ \A k \in 1..Len(results) :
        results[k].Err = ErrTimedOut /\ services[results[k].Service].URL # ""

\* C9 as claimed: the version "abc123def" is matched by the served token "abc123d".
C9_SevenCharacterTokenMatches ==
    (match.ok # "unset" /\ match.err = Nil /\ match.expectedSha = "abc123def"
        /\ match.fetchedSha = "abc123d") => match.ok = "true"

\* The characters of s, one by one.
Chars(s) == [k \in 1..Len(s) |-> SubSeq(s, k, k)]

\* C9: the deploy check accepts a served token exactly when the fetch gave no error, the
\* expected version starts with the token and the token has more than 7 characters:
\* "abc123def" is matched by "abc123de", not by "abc123d" nor by "xyz", and an empty token
\* matches no version.
C9_PrefixMatchLongerThanSeven ==
    match.ok # "unset" =>
        /\ match.ok = "true" <=>
            /\ match.err = Nil
            /\ Len(match.fetchedSha) >= 8
            /\ Len(match.fetchedSha) <= Len(match.expectedSha)
            /\ \A k \in 1..Len(match.fetchedSha) :
                Chars(match.fetchedSha)[k] = Chars(match.expectedSha)[k]
        /\ (match.err = Nil /\ match.expectedSha = "abc123def") =>
            /\ match.fetchedSha = "abc123de" => match.ok = "true"
            /\ match.fetchedSha \in { "abc123d", "xyz" } => match.ok = "false"
        /\ match.fetchedSha = "" => match.ok = "false"

\* The check of "abc123def" against a served "abc123de" has been made.
C9_Witness ==
    /\ match.ok = "true"
    /\ match.expectedSha = "abc123def"
    /\ match.fetchedSha = "abc123de"
    /\ match.resp.server # ""

\* C10: the goroutine CheckDeployed starts for a service without URL never sleeps or
\* probes, and when CheckDeployed returns the result of such a service is
\* ErrNoDeployCheckURL.
C10_NoURLGivesErrNoDeployCheckURL ==
    pc \in CheckDeployedSites =>
        /\ \A n \in ToSet(stageInput) :
            services[n].URL = "" => task[n] \notin { "sleep", "probe" }
        /\ exec = "ret" =>
            \A n \in ToSet(stageInput) :
                services[n].URL = "" => ErrorsOf(results, n) = { ErrNoDeployCheckURL }

\* CheckDeployed returned ErrNoDeployCheckURL for the service without URL and
\* ErrTimedOut for the other one.
C10_Witness ==
    /\ pc \in CheckDeployedSites
    /\ exec = "ret"
    /\ \E j, k \in 1..Len(results) :
        /\ results[j].Err = ErrNoDeployCheckURL
        /\ services[results[j].Service].URL = ""
        /\ results[k].Err = ErrTimedOut

\* Deploy returned an error for the service n.
DeployErred(n) == \E e \in ErrorsOf(locals.deployResults, n) : e # Nil

\* C11 as claimed: a service whose Deploy result carries an error has an empty
\* PreviousGitsha and an empty PreviousTaskDefinitionARN.
C11_FailedDeployLeavesPreviousEmpty ==
    \A n \in ToSet(ServiceNames) :
        DeployErred(n) =>
            /\ services[n].PreviousGitsha = ""
            /\ services[n].PreviousTaskDefinitionARN = 0

\* C12 as claimed: for a service whose Deploy result carries an error no task definition
\* revision was registered during the run: its family is the one the run began with.
C12_FailedDeployRegisteredNothing ==
    \A n \in ToSet(ServiceNames) :
        DeployErred(n) => ecs[n].family = ecs0[n].family

\* C13 as claimed: once the PreviousGitsha of a service is populated it differs from its
\* Gitsha.
C13_PreviousAlwaysDiffersFromTarget ==
    \A n \in ToSet(ServiceNames) :
        services[n].PreviousGitsha # "" => services[n].PreviousGitsha # services[n].Gitsha

\* C13: once the PreviousGitsha of a service is populated, it equals its Gitsha exactly
\* when Deploy registered no revision for the service, which is when the task definition
\* Deploy started from already had the version to deploy as its image tag; when Deploy
\* registered a revision the two differ, before and after the swap of Rollback.
C13_PreviousEqualsTargetIffNothingRegistered ==
    \A n \in ToSet(ServiceNames) :
        services[n].PreviousGitsha # "" =>
            /\ (services[n].PreviousGitsha = services[n].Gitsha)
                    <=> (ecs[n].family = ecs0[n].family)
            /\ (services[n].PreviousGitsha = services[n].Gitsha)
                    <=> (ecs0[n].family[BaseRevision(ecs0[n].family, ecs0[n].TaskDefinition,
                                                     updateStrategy)] = gitsha)

\* Deploy succeeded for a service that already ran the version to deploy, and for a
\* service that ran another version; Rollback has swapped both.
C13_Witness ==
    /\ \E n \in ToSet(ServiceNames) :
        /\ DeploySucceeded(n)
        /\ swaps[n] = 1
        /\ services[n].PreviousGitsha = gitsha
        /\ services[n].Gitsha = gitsha
    /\ \E n \in ToSet(ServiceNames) :
        /\ DeploySucceeded(n)
        /\ swaps[n] = 1
        /\ services[n].PreviousGitsha = gitsha
        /\ services[n].Gitsha = OldSha

\* C14: once Rollback has returned an error for some service the run has ended with
\* status 1, Rollback was the last stage called, and neither CheckDeployed nor
\* CheckDrained nor RollbackScheduledTasks of performRollback was ever called.
C14_FailedRevertEndsTheRun ==
    /\ (pc = "rb.Rollback" /\ exec = "ret") => locals.rollbackResults = <<>>
    /\ AnyError(locals.rollbackResults) =>
        /\ pc = "exit"
        /\ exitCode = "1"
        /\ trace[Len(trace)].site = "rb.Rollback"
        /\ ~Called("rb.CheckDeployed")
        /\ ~Called("rb.CheckDrained")
        /\ ~Called("rb.RollbackScheduledTasks")
        /\ Cardinality(Calls("rb.Rollback")) = 1
    /\ (Called("rb.CheckDeployed") \/ Called("rb.CheckDrained")
            \/ Called("rb.RollbackScheduledTasks")) =>
        /\ ~AnyError(locals.rollbackResults)
        /\ Len(locals.rollbackResults) = Len(rbServices)

\* The run ended after the revert of a rollback over both services failed for one of
\* them and succeeded for the other.
C14_Witness ==
    /\ pc = "exit"
    /\ Len(locals.rollbackResults) = 2
    /\ \E j, k \in 1..2 :
        /\ locals.rollbackResults[j].Err = Nil
        /\ locals.rollbackResults[k].Err # Nil

\* C15: once the CheckDrained of performRollback has returned an error or a timeout for
\* some service (revert and CheckDeployed had succeeded), Rollback and that CheckDrained
\* have each been called exactly once, no service was swapped twice, the run is at
\* RollbackScheduledTasks or has ended after calling it, and every rolled back service
\* is, in the record and on the backend, at the revision it used before the run.
C15_RollbackDrainFailureOnlyReported ==
    AnyError(locals.rbCheckDrainedResults) =>
        /\ ~AnyError(locals.rollbackResults)
        /\ ~AnyError(locals.rbCheckDeployedResults)
        /\ Cardinality(Calls("rb.Rollback")) = 1
        /\ Cardinality(Calls("rb.CheckDeployed")) = 1
        /\ Cardinality(Calls("rb.CheckDrained")) = 1
        /\ pc \in { "rb.RollbackScheduledTasks", "exit" }
        /\ pc = "exit" =>
            /\ Cardinality(Calls("rb.RollbackScheduledTasks")) = 1
            /\ trace[Len(trace)].site = "rb.RollbackScheduledTasks"
            /\ exitCode = "1"
        /\ \A n \in ToSet(ServiceNames) :
            /\ swaps[n] = (IF n \in ToSet(rbServices) THEN 1 ELSE 0)
            /\ ecs[n].TaskDefinition = ecs0[n].TaskDefinition
            /\ n \in ToSet(rbServices) =>
                services[n].TaskDefinitionARN = ecs0[n].TaskDefinition

\* A rollback over both services ended after its CheckDrained had timed out for one of
\* them and RollbackScheduledTasks had succeeded.
C15_Witness ==
    /\ pc = "exit"
    /\ Len(rbServices) = 2
    /\ \E k \in 1..Len(locals.rbCheckDrainedResults) :
        locals.rbCheckDrainedResults[k].Err = ErrTimedOut
    /\ locals.exitMsg = "Finished rolling back services"

\* The three outcomes of C16, by the message the run ends with.
CleanSuccess == locals.exitMsg = "Finished deploying all services"

ConfirmedRollback == locals.exitMsg = "Finished rolling back services"

UnconfirmedRollback ==
    locals.exitMsg \in { "Failed to create rollbacks for services",
                         "Failed to confirm services rolled back" }

\* C16 as claimed: the exit status tells the three outcomes apart: a run that ends in
\* clean success has status 0, a run whose rollback could not be confirmed has status 1,
\* and a run that ends with a confirmed rollback has a status that is neither.
C16_ExitStatusTellsOutcomesApart ==
    pc = "exit" =>
        /\ CleanSuccess => exitCode = "0"
        /\ UnconfirmedRollback => exitCode = "1"
        /\ ConfirmedRollback => exitCode \notin { "0", "1" }

\* Some check of the run ended with ErrTimedOut for some service.
SomeCheckTimedOut ==
    \E rs \in { locals.checkDeployedResults, locals.checkDrainedResults,
                locals.rbCheckDeployedResults, locals.rbCheckDrainedResults } :
        \E k \in 1..Len(rs) : rs[k].Err = ErrTimedOut

\* C17 as claimed: the exit code is 2 when some check timed out, otherwise 1 when the
\* deployment failed and 0 when it succeeded.
C17_ExitCodeZeroOneTwo ==
    pc = "exit" =>
        exitCode = (IF SomeCheckTimedOut THEN "2"
                    ELSE IF locals.updateScheduledTasksFailed \/ locals.deployFailed
                            \/ locals.checkDeployedFailed THEN "1"
                    ELSE "0")

\* Every stage of the forward path has returned, without a failure for any unit.
AllStagesSucceeded ==
    /\ ~locals.updateScheduledTasksFailed
    /\ updateStrategy # UpdateStrategyNone =>
        /\ Len(locals.deployResults) = Len(ServiceNames)
        /\ ~AnyError(locals.deployResults)
    /\ Len(locals.checkDeployedResults) = Len(ServiceNames)
    /\ \A k \in 1..Len(locals.checkDeployedResults) :
        locals.checkDeployedResults[k].Err \in { Nil, ErrNoDeployCheckURL }
    /\ Len(locals.checkDrainedResults) = Len(ServiceNames)
    /\ ~AnyError(locals.checkDrainedResults)

\* C18: when the scheduled task update, Deploy, CheckDeployed and CheckDrained have all
\* returned without a failure the run has ended with status 0, and Rollback and
\* RollbackScheduledTasks were never called.
C18_AllSucceedEndsAsSuccess ==
    AllStagesSucceeded =>
        /\ pc = "exit"
        /\ exitCode = "0"
        /\ ~Called("rb.Rollback")
        /\ ~Called("rb.RollbackScheduledTasks")
        /\ \A n \in ToSet(ServiceNames) : swaps[n] = 0
        /\ rbServices = <<>>

\* A run that deployed both services with a check URL ended with every stage succeeded.
C18_Witness ==
    /\ AllStagesSucceeded
    /\ updateStrategy # UpdateStrategyNone
    /\ \A n \in ToSet(ServiceNames) : services[n].URL # ""
    /\ \A k \in 1..Len(locals.checkDeployedResults) : locals.checkDeployedResults[k].Err = Nil
    /\ Called("UpdateScheduledTasks")

IsRollbackCall(c) ==
    c.site \in { "rb.Rollback", "rb.CheckDeployed", "rb.CheckDrained",
                 "rb.RollbackScheduledTasks" }

RollbackOrder ==
    <<"rb.Rollback", "rb.CheckDeployed", "rb.CheckDrained", "rb.RollbackScheduledTasks">>

\* C19: the calls performRollback makes are, in this order, Rollback, CheckDeployed,
\* CheckDrained (all three over the services performRollback was given) and
\* RollbackScheduledTasks; a goroutine of Rollback runs only after the pointers of its
\* service were swapped; and a stage is called only after the stage before it returned
\* one result for every service of the set.
C19_RollbackStagesInOrder ==
    LET calls == SelectSeq(trace, IsRollbackCall)
        Complete(rs) ==
            /\ Len(rs) = Len(rbServices)
            /\ \A n \in ToSet(rbServices) : Occurrences(rs, n) = 1
    IN  /\ Len(calls) <= Len(RollbackOrder)
        /\ \A k \in 1..Len(calls) :
            /\ calls[k].site = RollbackOrder[k]
            /\ k <= 3 => calls[k].input = rbServices
        /\ \A k \in 1..Len(trace) :
            IsRollbackCall(trace[k]) => \A j \in k..Len(trace) : IsRollbackCall(trace[j])
        /\ pc = "rb.Rollback" =>
            \A n \in ToSet(ServiceNames) :
                task[n] \in { "run", "send", "done" } => swaps[n] = 1
        /\ Len(calls) >= 2 =>
            /\ Complete(locals.rollbackResults)
            /\ \A n \in ToSet(rbServices) : swaps[n] = 1
        /\ Len(calls) >= 3 => Complete(locals.rbCheckDeployedResults)
        /\ Len(calls) >= 4 => Complete(locals.rbCheckDrainedResults)
        /\ (pc # "exit" /\ exec # "idle" /\ Len(calls) >= 1) =>
            /\ pc = calls[Len(calls)].site
            /\ \A n \in AllNames : task[n] # "none" => n \in ToSet(stageInput)
        /\ (IsRollbackCall([site |-> pc]) /\ exec = "idle") =>
            pc = RollbackOrder[Len(calls) + 1]

\* A rollback over both services went through all of its stages.
C19_Witness ==
    /\ pc = "exit"
    /\ rbServices = ServiceNames
    /\ [k \in 1..Len(SelectSeq(trace, IsRollbackCall)) |->
            SelectSeq(trace, IsRollbackCall)[k].site] = RollbackOrder

\* C20 as claimed: a service for which Deploy returned no error (and that no rollback has
\* touched) has the version to deploy as its Gitsha, the image tag it ran before as its
\* PreviousGitsha, the revision it used before as its PreviousTaskDefinitionARN, and as
\* its TaskDefinitionARN the revision the run registered for it (when it registered one),
\* which carries the version to deploy and is the one the backend service now uses.
C20_DeployLeavesServiceFields ==
    \A n \in ToSet(ServiceNames) :
        (DeploySucceeded(n) /\ swaps[n] = 0) =>
            /\ services[n].Gitsha = gitsha
            /\ services[n].PreviousGitsha = ecs0[n].family[ecs0[n].TaskDefinition]
            /\ services[n].PreviousTaskDefinitionARN = ecs0[n].TaskDefinition
            /\ ecs[n].family # ecs0[n].family =>
                /\ ecs[n].family = Append(ecs0[n].family, gitsha)
                /\ services[n].TaskDefinitionARN = Len(ecs[n].family)
            /\ ecs[n].family[services[n].TaskDefinitionARN] = gitsha
            /\ ecs[n].TaskDefinition = services[n].TaskDefinitionARN

\* The record of the service n as Deploy left it, and the same record with Gitsha and
\* PreviousGitsha, TaskDefinitionARN and PreviousTaskDefinitionARN exchanged.
AsDeployed(n) ==
    Deployed(n, services[n].URL, services[n].UpdateStrategy, ecs0[n]).service

Exchanged(s) ==
    [ Name |-> s.Name, URL |-> s.URL, UpdateStrategy |-> s.UpdateStrategy,
      Gitsha |-> s.PreviousGitsha, PreviousGitsha |-> s.Gitsha,
      TaskDefinitionARN |-> s.PreviousTaskDefinitionARN,
      PreviousTaskDefinitionARN |-> s.TaskDefinitionARN ]

\* C21: a service Rollback was called on an odd number of times has Gitsha exchanged with
\* PreviousGitsha and TaskDefinitionARN with PreviousTaskDefinitionARN and every other
\* field as before; after an even number of calls it has its original field values; a
\* service that was not in the input is unchanged; every call returns one result per
\* input service, and a result without error means the backend service now uses the
\* record's TaskDefinitionARN.
C21_RollbackExchangesAndTwiceRestores ==
    /\ \A n \in ToSet(ServiceNames) :
        /\ services[n].Name = n
        /\ swaps[n] % 2 = 1 => services[n] = Exchanged(AsDeployed(n))
        /\ swaps[n] % 2 = 0 => services[n] = AsDeployed(n)
        /\ n \notin ToSet(rbServices) => swaps[n] = 0
    /\ exec = "ret" =>
        /\ Len(results) = Len(rbServices)
        /\ \A n \in ToSet(rbServices) :
            /\ Occurrences(results, n) = 1
            /\ swaps[n] = Len(trace)
            /\ ErrorsOf(results, n) = { Nil } =>
                ecs[n].TaskDefinition = services[n].TaskDefinitionARN

\* Rollback has returned for the second time on two services whose target and previous
\* version differ: both are as Deploy left them.
C21_Witness ==
    /\ exec = "ret"
    /\ Len(trace) = 2
    /\ Len(rbServices) = 2
    /\ \A n \in ToSet(ServiceNames) :
        /\ swaps[n] = 2
        /\ services[n].Gitsha # services[n].PreviousGitsha
        /\ services[n].TaskDefinitionARN # services[n].PreviousTaskDefinitionARN
        /\ services[n] = AsDeployed(n)

\* C22: no step of RollbackScheduledTasks changes a scheduled task record or registers a
\* revision; when it returns there is exactly one result per task, and for a task whose
\* result has no error the backend rule targets the task's PreviousTaskDefinitionARN.
C22_RollbackScheduledTasksSwapsNothing ==
    /\ [][ pc = "rb.RollbackScheduledTasks" =>
            /\ tasks' = tasks
            /\ \A n \in AllNames : ecs'[n].family = ecs[n].family ]_vars
    /\ []( (pc = "rb.RollbackScheduledTasks" /\ exec = "ret") =>
            /\ Len(results) = Len(ScheduledTaskNames)
            /\ \A n \in ToSet(ScheduledTaskNames) :
                /\ Occurrences(results, n) = 1
                /\ ErrorsOf(results, n) = { Nil } =>
                    eb[n] = tasks[n].PreviousTaskDefinitionARN )

\* RollbackScheduledTasks returned without error for a task that the run had updated to a
\* new revision: the rule targets the previous revision again.
C22_Witness ==
    /\ pc = "rb.RollbackScheduledTasks"
    /\ exec = "ret"
    /\ ~AnyError(results)
    /\ \A n \in ToSet(ScheduledTaskNames) :
        /\ tasks[n].Gitsha = gitsha
        /\ tasks[n].PreviousGitsha = OldSha
        /\ tasks[n].TaskDefinitionARN # tasks[n].PreviousTaskDefinitionARN
        /\ eb[n] = tasks[n].PreviousTaskDefinitionARN

C24_NoneNeverDeploys ==
    updateStrategy = UpdateStrategyNone =>
        /\ ~Called("Deploy")
        /\ ~Called("rb.Rollback")
        /\ ~Called("rb.RollbackScheduledTasks")
        /\ \A n \in ToSet(ServiceNames) :
            /\ services[n] = NewService(n, services[n].URL, UpdateStrategyNone)
            /\ ecs[n] = ecs0[n]
            /\ swaps[n] = 0
        /\ Len(trace) <= 3
        /\ \A k \in 1..Len(trace) :
            trace[k] = <<[site |-> "UpdateScheduledTasks", input |-> ScheduledTaskNames],
                         [site |-> "CheckDeployed", input |-> ServiceNames],
                         [site |-> "CheckDrained", input |-> ServiceNames]>>[k]
        /\ pc = "exit" =>
            /\ Called("CheckDeployed") \/ locals.updateScheduledTasksFailed
            /\ Called("CheckDrained") \/ locals.updateScheduledTasksFailed
                    \/ locals.checkDeployedFailed
            /\ exitCode = "0" <=> Called("CheckDrained")

\* A run with the update strategy none ended after CheckDeployed and CheckDrained ran over
\* both services, whose backend holds a version other than the one given to the run.
C24_Witness ==
    /\ updateStrategy = UpdateStrategyNone
    /\ pc = "exit"
    /\ Len(trace) = 3
    /\ Len(locals.checkDrainedResults) = Len(ServiceNames)
    /\ \A n \in ToSet(ServiceNames) : ecs[n].family = <<OldSha>>

\* The names of the records of a sequence.
NamesOf(records) == { records[k].Name : k \in 1..Len(records) }

\* C25: config.Read returns either an error and the zero ParsedConfig (for a missing
\* file, YAML that does not decode, or an updateStrategy that is not current, latest or
\* none in any letter case), or no error and one Service and one ScheduledTask per name of
\* the file, each with the given gitsha, no previous version, and the strategy of the
\* file in lower case, current when the file sets none; Role is nil exactly when the file
\* has no role ARN, and TimeoutMinutes is the file's.
C25_ReadAllOrNothing ==
    parsed.done =>
        LET f == parsed.file
            cfg == parsed.cfg
            invalid == f.updateStrategy \notin
                            { "", "current", "latest", "none", "Latest", "NONE" }
        IN  /\ parsed.err # Nil <=> (~f.exists \/ ~f.decodes \/ invalid)
            /\ parsed.err # Nil =>
                /\ cfg.Services = <<>>
                /\ cfg.ScheduledTasks = <<>>
                /\ cfg.Role = {}
                /\ cfg.TimeoutMinutes = 0
            /\ parsed.err = Nil =>
                /\ Len(cfg.Services) = Cardinality(f.services)
                /\ NamesOf(cfg.Services) = f.services
                /\ Len(cfg.ScheduledTasks) = Cardinality(f.scheduledTasks)
                /\ NamesOf(cfg.ScheduledTasks) = f.scheduledTasks
                /\ cfg.UpdateStrategy \in { UpdateStrategyCurrent, UpdateStrategyLatest,
                                            UpdateStrategyNone }
                /\ f.updateStrategy = "" => cfg.UpdateStrategy = UpdateStrategyCurrent
                /\ f.updateStrategy \in { "latest", "Latest" } =>
                    cfg.UpdateStrategy = UpdateStrategyLatest
                /\ f.updateStrategy \in { "none", "NONE" } =>
                    cfg.UpdateStrategy = UpdateStrategyNone
                /\ \A k \in 1..Len(cfg.Services) :
                    /\ cfg.Services[k].Gitsha = parsed.gitsha
                    /\ cfg.Services[k].UpdateStrategy = cfg.UpdateStrategy
                    /\ cfg.Services[k].PreviousGitsha = ""
                    /\ cfg.Services[k].TaskDefinitionARN = 0
                    /\ cfg.Services[k].PreviousTaskDefinitionARN = 0
                /\ \A k \in 1..Len(cfg.ScheduledTasks) :
                    /\ cfg.ScheduledTasks[k].Gitsha = parsed.gitsha
                    /\ cfg.ScheduledTasks[k].UpdateStrategy = cfg.UpdateStrategy
                    /\ cfg.ScheduledTasks[k].PreviousGitsha = ""
                /\ cfg.Role = {} <=> f.roleARN = ""
                /\ \A r \in cfg.Role : r.ARN = f.roleARN
                /\ cfg.TimeoutMinutes = f.timeoutMinutes

\* Read returned two services and a scheduled task with the strategy current for a file
\* that sets no updateStrategy and no role.
C25_Witness ==
    /\ parsed.done
    /\ parsed.err = Nil
    /\ parsed.file.updateStrategy = ""
    /\ parsed.file.roleARN = ""
    /\ Len(parsed.cfg.Services) = 2
    /\ Len(parsed.cfg.ScheduledTasks) = 1
    /\ parsed.cfg.Role = {}
    /\ \A k \in 1..2 : parsed.cfg.Services[k].UpdateStrategy = UpdateStrategyCurrent

----------------------------------------------------------------------------
(* Ownership of the service records *)

\* C26: a service record is accessed by one task at a time: once Rollback has swapped
\* the Gitsha and TaskDefinitionARN of a service, no goroutine that the forward
\* CheckDeployed started for that service is still polling, that is still reading the
\* service's Gitsha after each probe.
C26_NoPollerReadsWhatRollbackWrites ==
    \A n \in ToSet(ServiceNames) :
        swaps[n] > 0 => <<"CheckDeployed", n, "poll">> \notin leaked

\* C27: what a polling goroutine produces after its stage has returned is discarded.  A
\* goroutine left behind that is sending stays blocked on its send until the process
\* ends, and every result a collect loop records is the one a goroutine of the running
\* call is sending for a service not yet completed; the only other results a polling
\* stage adds are the ErrTimedOut it fills in when its timer fires.
C27_LateResultsAreDiscarded ==
    [][ /\ \A g \in leaked : g[3] = "send" => (g \in leaked' \/ pc' = "exit")
        /\ (pc \in PollingSites /\ exec = "wait" /\ results' # results) =>
              \/ /\ TimerFired
                 /\ results' = results \o TimedOutResults(stageInput, completed)
              \/ \E n \in ToSet(stageInput) \ completed :
                    /\ task[n] = "send"
                    /\ SubSeq(results', 1, Len(results) + 1)
                            = Append(results, Result(n, pending[n])) ]_vars

\* The CheckDeployed of the rollback returned ErrTimedOut for a service while a
\* goroutine of the forward CheckDeployed is blocked sending a result for that service.
C27_Witness ==
    /\ pc = "rb.CheckDeployed"
    /\ exec = "ret"
    /\ \E n \in ToSet(stageInput) :
        /\ <<"CheckDeployed", n, "send">> \in leaked
        /\ ErrorsOf(results, n) = { ErrTimedOut }

----------------------------------------------------------------------------
(* Deadlines and isolation *)

\* C28: every call of CheckDeployed and CheckDrained, those of performRollback
\* included, counts its timeout from its own start: the timer of its select has never
\* run longer than the call itself, and when the call returns ErrTimedOut for a service
\* it has waited for at least timeoutDuration, whatever time earlier stages took.
C28_EveryCallWaitsItsOwnTimeout ==
    pc \in PollingSites =>
        /\ exec = "wait" => timer <= elapsed
        /\ (exec = "ret" /\ \E n \in ToSet(stageInput) : ErrTimedOut \in ErrorsOf(results, n))
                => elapsed >= timeoutDuration

\* The CheckDrained of the rollback returned ErrTimedOut after its full timeout, in a
\* run whose forward CheckDeployed had already waited until its own timeout.
C28_Witness ==
    /\ pc = "rb.CheckDrained"
    /\ exec = "ret"
    /\ elapsed >= timeoutDuration
    /\ \E n \in ToSet(stageInput) : ErrTimedOut \in ErrorsOf(results, n)
    /\ \E g \in leaked : g[1] = "CheckDeployed"

\* C29: an error of one service never aborts its siblings.  In Deploy the update of a
\* service is made by its own goroutine, once (the goroutine goes from running to
\* sending), no goroutine is ever cancelled, and Deploy returns only with one result for
\* every service.  In CheckDrained every service without a recorded result is still being
\* polled, whatever results were recorded before, and the collect loop ends only when
\* every service has sent its result or the timer has fired.
C29_ErrorsDoNotAbortSiblings ==
    [][ /\ pc = "Deploy" =>
            /\ \A n \in ToSet(ServiceNames) :
                    (services'[n] # services[n] \/ ecs'[n] # ecs[n])
                        => (task[n] = "run" /\ task'[n] = "send")
            /\ exec = "wait" =>
                    \A n \in ToSet(stageInput) : task[n] \in { "run", "send", "done" }
            /\ (exec = "wait" /\ exec' = "ret") =>
                    \A n \in ToSet(stageInput) : Occurrences(results', n) = 1
        /\ pc \in CheckDrainedSites =>
            /\ exec = "wait" => ToSet(stageInput) \ completed = Alive
            /\ (exec = "wait" /\ exec' = "ret") =>
                    (TimerFired \/ completed' = ToSet(stageInput)) ]_vars

\* CheckDrained recorded an error for the service that reported first and then success
\* for the other one.
C29_Witness ==
    /\ pc \in CheckDrainedSites
    /\ exec = "ret"
    /\ Len(results) = 2
    /\ results[1].Err \notin { Nil, ErrTimedOut }
    /\ results[2].Err = Nil

\* C30: in CheckDeployed a probe never produces an error result.  A poll of a service
\* either ends with the goroutine sending success or with the goroutine asleep for the
\* check interval and the results untouched; a goroutine of a service with a URL only
\* ever sends success, and the results of such a service are success or ErrTimedOut.
C30_ProbeFailuresAreRetried ==
    [][ (pc \in CheckDeployedSites) =>
          ( \A n \in ToSet(stageInput) :
                /\ (task[n] = "probe" /\ task'[n] # "probe" /\ exec' = "wait") =>
                        /\ results' = results
                        /\ \/ task'[n] = "send" /\ pending'[n] = Nil
                           \/ task'[n] = "sleep" /\ sleep'[n] = checkIntervalDuration
                /\ services[n].URL # "" =>
                        /\ task[n] = "send" => pending[n] = Nil
                        /\ ErrorsOf(results, n) \subseteq { Nil, ErrTimedOut } ) ]_vars

\* A service with a URL was probed without a match: its goroutine sleeps for another
\* check interval and the stage has no result for it.
C30_Witness ==
    /\ pc \in CheckDeployedSites
    /\ exec = "wait"
    /\ \E n \in ToSet(stageInput) :
        /\ services[n].URL # ""
        /\ task[n] = "sleep"
        /\ sleep[n] = checkIntervalDuration
        /\ elapsed >= checkIntervalDuration
        /\ Occurrences(results, n) = 0

----------------------------------------------------------------------------
(* Results of the polling stages *)

\* C31: in CheckDrained the first error of the status query of a service ends the
\* polling of that service.  Whatever error the backend answers, the goroutine sends it
\* as its result and returns; a goroutine that is sending or has had its result
\* received never polls again while the stage waits; when the collect loop receives
\* from the service it records what was sent, and a service is recorded once.
C31_DrainQueryErrorEndsPolling ==
    [][ (pc \in CheckDrainedSites) =>
          ( \A n \in ToSet(stageInput) :
                /\ \A resp \in DrainResponses(ecs[n]) :
                        resp.err # Nil =>
                            DrainPoll(services[n], resp) = [next |-> "send", err |-> resp.err]
                /\ (task[n] \in { "send", "done" } /\ exec' = "wait") =>
                        task'[n] \in { "send", "done" }
                /\ n \in completed' \ completed =>
                        SubSeq(results', 1, Len(results) + 1)
                            = Append(results, Result(n, pending[n]))
                /\ Occurrences(results, n) <= 1 ) ]_vars

\* The status query of a service failed: CheckDrained has recorded that error for the
\* service, whose goroutine has ended, while it still waits for the other service.
C31_Witness ==
    /\ pc \in CheckDrainedSites
    /\ exec = "wait"
    /\ \E n \in ToSet(stageInput) :
        /\ task[n] = "done"
        /\ ErrorsOf(results, n) = { "DescribeServices" }
        /\ \E m \in ToSet(stageInput) \ { n } : task[m] \in { "sleep", "probe" }

\* C32: in the results a polling stage returns, a service carries ErrTimedOut exactly
\* when the collect loop received nothing from it before it stopped; a service it
\* received from carries what was received (success, ErrNoDeployCheckURL or the error of
\* the backend), once, and never ErrTimedOut.  While the loop runs, the services in the
\* results are those received from.
C32_TimedOutIffNoReportReceived ==
    pc \in PollingSites =>
        /\ exec = "wait" =>
                /\ { results[k].Service : k \in 1..Len(results) } = completed
                /\ \A k \in 1..Len(results) : results[k].Err # ErrTimedOut
        /\ exec = "ret" =>
                \A n \in ToSet(stageInput) :
                    /\ Occurrences(results, n) = 1
                    /\ n \in completed <=> ErrTimedOut \notin ErrorsOf(results, n)
                    /\ ErrorsOf(results, n) \subseteq
                            { Nil, ErrTimedOut, ErrNoDeployCheckURL, ErrHealthcheckFailed,
                              "DescribeServices" }

\* A polling stage returned the error of the backend for the service it received from
\* and ErrTimedOut for the service it did not receive from.
C32_Witness ==
    /\ pc \in PollingSites
    /\ exec = "ret"
    /\ \E n \in completed : ErrorsOf(results, n) = { "DescribeServices" }
    /\ \E m \in ToSet(stageInput) \ completed : ErrorsOf(results, m) = { ErrTimedOut }

----------------------------------------------------------------------------
(* What the stages write *)

\* C33: CheckDeployed and CheckDrained, in the forward run and in the rollback, leave
\* every service record as it is, and so does every step outside Deploy and Rollback: a
\* service record changes only in a step of Deploy or of Rollback.
C33_OnlyDeployAndRollbackWriteServices ==
    [][ /\ (pc \in PollingSites) => services' = services
        /\ (services' # services) => pc \in { "Deploy", "rb.Rollback" } ]_vars

\* CheckDeployed and then CheckDrained have returned success for a service and every
\* service record is still as Deploy left it.
C33_Witness ==
    /\ pc = "CheckDrained"
    /\ exec = "ret"
    /\ Called("Deploy")
    /\ \E n \in ToSet(stageInput) : ErrorsOf(results, n) = { Nil }
    /\ \A n \in ToSet(ServiceNames) :
        /\ services[n].PreviousGitsha # ""
        /\ services[n] = AsDeployed(n)

\* C34: Rollback only applies a revision that is already known.  In Rollback no task
\* definition family changes; the backend of a service changes only in the one step of
\* the service's goroutine, and what that step sets is the service's current task
\* definition, to the TaskDefinitionARN the swap put on the record.
C34_RollbackRegistersNothing ==
    [][ (pc = "rb.Rollback") =>
          ( /\ \A n \in AllNames : ecs'[n].family = ecs[n].family
            /\ \A n \in ToSet(ServiceNames) :
                    ecs'[n] # ecs[n] =>
                        /\ task[n] = "run" /\ task'[n] = "send"
                        /\ swaps[n] >= 1
                        /\ ecs'[n].TaskDefinition = services[n].TaskDefinitionARN ) ]_vars

\* Rollback returned success for a service for which Deploy had registered a revision:
\* the service runs the revision it ran before the run, and its family still holds the
\* one revision more that Deploy registered.
C34_Witness ==
    /\ pc = "rb.Rollback"
    /\ exec = "ret"
    /\ \E n \in ToSet(stageInput) :
        /\ ErrorsOf(results, n) = { Nil }
        /\ swaps[n] = 1
        /\ Len(ecs[n].family) = Len(ecs0[n].family) + 1
        /\ ecs[n].TaskDefinition = ecs0[n].TaskDefinition
        /\ ecs[n].TaskDefinition = services[n].TaskDefinitionARN

----------------------------------------------------------------------------
(* The order of the stages *)

\* C35: once performRollback has been entered no stage of the forward run is executed
\* any more.  The run is then at a stage of performRollback or has ended, and it ends
\* as failed; every call made after the first call of Rollback is a call of
\* performRollback.
C35_NoForwardStageAfterRollback ==
    (Called("rb.Rollback") \/ pc \in ToSet(RollbackOrder)) =>
        /\ pc \in ToSet(RollbackOrder) \cup { "exit" }
        /\ pc = "exit" => exitCode = "1"
        /\ \A k \in Calls("rb.Rollback") :
                \A h \in k..Len(trace) : IsRollbackCall(trace[h])

\* performRollback ran all its four stages after main's own CheckDeployed, and the run
\* has ended.
C35_Witness ==
    /\ pc = "exit"
    /\ Called("CheckDeployed")
    /\ Called("rb.RollbackScheduledTasks")
    /\ ~Called("CheckDrained")
    /\ trace[Len(trace)].site = "rb.RollbackScheduledTasks"

\* The scheduled tasks whose rule main has pointed at a revision registered in this run.
UpdatedTasks == { n \in DOMAIN tasks : eb[n] # 1 }

\* C36: the scheduled tasks are updated before any service.  Every other stage is called
\* after a first call, of UpdateScheduledTasks, that returned no error.  When the update
\* of a scheduled task failed the run has ended as failed with that one call made:
\* Deploy was not started, no service record and no service on the backend was touched,
\* and the rule of every scheduled task whose update succeeded still points at the
\* revision registered for it.
C36_ScheduledTasksFirstAndNotRolledBack ==
    /\ (trace # <<>>) => trace[1].site = "UpdateScheduledTasks"
    /\ Len(trace) > 1 => ~locals.updateScheduledTasksFailed
    /\ locals.updateScheduledTasksFailed =>
            /\ pc = "exit" /\ exitCode = "1"
            /\ Len(trace) = 1
            /\ \A n \in ToSet(ServiceNames) :
                    /\ ecs[n] = ecs0[n]
                    /\ services[n] = NewService(n, services[n].URL, updateStrategy)
            /\ \A n \in UpdatedTasks :
                    /\ eb[n] = tasks[n].TaskDefinitionARN
                    /\ eb[n] = Len(ecs[n].family)
                    /\ ecs[n].family[eb[n]] = gitsha

\* The update of one scheduled task failed and the update of the other succeeded: the
\* run has ended and the rule of the second still points at its new revision.
C36_Witness ==
    /\ pc = "exit"
    /\ locals.updateScheduledTasksFailed
    /\ UpdatedTasks # {}
    /\ UpdatedTasks # DOMAIN tasks

\* C37: in performRollback RollbackScheduledTasks is called, over all scheduled tasks,
\* only when Rollback and then the CheckDeployed of the rollback returned no error for
\* any service.  When one of the two returned an error the run has ended without that
\* call, the rule of every scheduled task still pointing at the revision registered in
\* this run.  Once the CheckDrained of the rollback has returned, with or without
\* errors, the run only ends after RollbackScheduledTasks was called.
C37_ScheduledTaskRollbackOnlyAfterConfirmedRevert ==
    /\ (Called("rb.RollbackScheduledTasks") \/ pc = "rb.RollbackScheduledTasks") =>
            /\ Called("rb.Rollback") /\ Called("rb.CheckDeployed") /\ Called("rb.CheckDrained")
            /\ ~AnyError(locals.rollbackResults)
            /\ ~AnyError(locals.rbCheckDeployedResults)
            /\ \A k \in Calls("rb.RollbackScheduledTasks") :
                    ToSet(trace[k].input) = DOMAIN tasks
    /\ (locals.rollbackFailed \/ locals.rbCheckDeployedFailed) =>
            /\ pc = "exit" /\ exitCode = "1"
            /\ ~Called("rb.RollbackScheduledTasks")
            /\ \A n \in DOMAIN tasks :
                    /\ eb[n] = tasks[n].TaskDefinitionARN
                    /\ eb[n] # tasks[n].PreviousTaskDefinitionARN
    /\ (Called("rb.CheckDrained") /\ pc = "exit") => Called("rb.RollbackScheduledTasks")

\* The CheckDrained of the rollback returned an error, and the scheduled tasks were
\* rolled back all the same: the run has ended with a rule on its previous revision.
C37_Witness ==
    /\ pc = "exit"
    /\ locals.rbCheckDrainedFailed
    /\ Called("rb.RollbackScheduledTasks")
    /\ \E n \in DOMAIN tasks :
        /\ eb[n] = tasks[n].PreviousTaskDefinitionARN
        /\ eb[n] # tasks[n].TaskDefinitionARN

\* C38: with the update strategy none a failed CheckDeployed ends the run as failed
\* after the two calls UpdateScheduledTasks and CheckDeployed: neither Rollback nor
\* RollbackScheduledTasks is called, no service record was swapped, and the rule of
\* every scheduled task stays on the revision that was registered for it at the start
\* of the run.
C38_NoneFailureLeavesScheduledTasksUpdated ==
    (updateStrategy = UpdateStrategyNone /\ locals.checkDeployedFailed) =>
        /\ pc = "exit" /\ exitCode = "1"
        /\ Len(trace) = 2
        /\ trace[1].site = "UpdateScheduledTasks" /\ trace[2].site = "CheckDeployed"
        /\ \A n \in ToSet(ServiceNames) : swaps[n] = 0
        /\ \A n \in DOMAIN tasks :
                /\ Len(ecs[n].family) = Len(ecs0[n].family) + 1
                /\ eb[n] = Len(ecs[n].family)
                /\ ecs[n].family[eb[n]] = gitsha
                /\ tasks[n].TaskDefinitionARN = eb[n]

\* With the strategy none CheckDeployed timed out for a service: the run has ended and
\* the rule of a scheduled task points at the revision registered in this run.
C38_Witness ==
    /\ updateStrategy = UpdateStrategyNone
    /\ pc = "exit"
    /\ locals.checkDeployedFailed
    /\ \E k \in 1..Len(locals.checkDeployedResults) :
            locals.checkDeployedResults[k].Err = ErrTimedOut
    /\ \E n \in DOMAIN tasks : eb[n] = 2 /\ eb[n] # ecs0[n].TaskDefinition

----------------------------------------------------------------------------
(* The swap of Rollback *)

\* C39 as stated: Rollback has swapped the pointers of every input service before the
\* revert call of any service is issued.
C39_AllSwappedBeforeAnyRevert ==
    (pc = "rb.Rollback" /\ \E n \in ToSet(stageInput) : task[n] \in { "send", "done" }) =>
        \A m \in ToSet(stageInput) : swaps[m] >= 1

\* C39: Rollback swaps the pointers of a service before the revert call of that service
\* is issued, while services later in the input may still be unswapped, and never undoes
\* a swap: a service whose goroutine was started, and every service of the input once
\* Rollback has returned, whatever its result, holds the record Deploy left with Gitsha
\* and PreviousGitsha, TaskDefinitionARN and PreviousTaskDefinitionARN exchanged.
C39_SwappedBeforeOwnRevertAndKept ==
    /\ pc = "rb.Rollback" =>
            \A n \in ToSet(stageInput) :
                /\ task[n] = "unspawned" => swaps[n] = 0
                /\ (task[n] \in { "run", "send", "done" } \/ exec = "ret") =>
                        /\ swaps[n] = 1
                        /\ services[n] = SwapPointers(AsDeployed(n))
    /\ locals.rollbackFailed =>
            \A k \in 1..Len(locals.rollbackResults) :
                LET n == locals.rollbackResults[k].Service
                IN  services[n] = SwapPointers(AsDeployed(n))

\* Rollback returned an error for a service for which Deploy had registered a revision:
\* the service holds the old version as Gitsha and the new one as PreviousGitsha.
C39_Witness ==
    /\ pc = "rb.Rollback"
    /\ exec = "ret"
    /\ \E k \in 1..Len(results) :
        /\ results[k].Err # Nil
        /\ services[results[k].Service].Gitsha = OldSha
        /\ services[results[k].Service].PreviousGitsha = gitsha

----------------------------------------------------------------------------
(* Deploy of the version that is already there *)

\* The task definition Deploy starts from for the service already has the version to
\* deploy as its image tag.
SameVersion(n) ==
    ecs0[n].family[BaseRevision(ecs0[n].family, ecs0[n].TaskDefinition, updateStrategy)]
        = gitsha

\* C40: when the task definition Deploy starts from already has the version to deploy,
\* Deploy registers no revision.  awsecs.Deploy then succeeds unless one of its calls
\* DescribeServices, DescribeTaskDefinition or UpdateService fails, RegisterTaskDefinition
\* not being among them; it sets the service's TaskDefinitionARN to the revision it
\* started from and updates the backend service to that revision.  In the run the
\* family of such a service never grows, and a service Deploy succeeded for holds that
\* revision and the version itself as its PreviousGitsha.
C40_SameVersionRegistersNothing ==
    \A n \in ToSet(ServiceNames) :
        SameVersion(n) =>
            LET base == BaseRevision(ecs0[n].family, ecs0[n].TaskDefinition, updateStrategy)
                d(fail) == awsDeploy(NewService(n, services[n].URL, updateStrategy),
                                     ecs0[n], fail)
            IN  /\ \A fail \in BackendFailures :
                        /\ d(fail).be.family = ecs0[n].family
                        /\ d(fail).err \in { Nil, "DescribeServices", "DescribeTaskDefinition",
                                             "UpdateService" }
                /\ d("none").err = Nil
                /\ d("RegisterTaskDefinition").err = Nil
                /\ d("none").service.TaskDefinitionARN = base
                /\ d("none").be.TaskDefinition = base
                /\ ecs[n].family = ecs0[n].family
                /\ (DeploySucceeded(n) /\ swaps[n] = 0) =>
                        /\ services[n].TaskDefinitionARN = base
                        /\ services[n].PreviousGitsha = gitsha
                        /\ services[n].Gitsha = gitsha

\* Deploy returned success for a service that already ran the version to deploy: the
\* backend service was updated to its one revision and no revision was registered.
C40_Witness ==
    \E n \in ToSet(ServiceNames) :
        /\ SameVersion(n)
        /\ DeploySucceeded(n)
        /\ pc = "CheckDeployed"
        /\ services[n].TaskDefinitionARN = 1
        /\ ecs[n] = [TaskDefinition |-> 1, family |-> <<gitsha>>]

====
